---------------------------- MODULE Spec2Model ----------------------------
(***************************************************************************)
(* BeamLink protocol engine (Firmware/.../BeamLink/src/BeamLink.cpp).      *)
(*                                                                         *)
(* Two execution contexts touch one BeamLink object:                       *)
(*   "main"  - the application loop: begin, end, notify, onMessage,        *)
(*             resetStats, loop, and replies kept by a handler;            *)
(*   "stack" - the NimBLE host task: onConnect, onDisconnect, onWrite and  *)
(*             the message handler with the reply it is given.             *)
(* The object's fields are plain (non-atomic) members, so the steps of the *)
(* two contexts interleave.  notify is split at the point between its      *)
(* precondition checks and its write to the characteristic; end is split   *)
(* between clearing its flags and shutting the stack down; onWrite is      *)
(* split between its test of the handler and the call of the handler.      *)
(*                                                                         *)
(* The NexState store (Firmware/.../BeamLink/src/NexState.cpp) is a second *)
(* object, used from the application loop only.  It shares the millisecond *)
(* clock with the engine and nothing else.                                 *)
(***************************************************************************)
EXTENDS Integers, Sequences, FiniteSets, TLC

\* ------------------------------------------------------------------ bounds
\* the counters are explored up to this value
MaxCount == 2
\* length of the short text used as message and as inbound frame
ShortLen == 2
\* the millisecond clock is advanced at most this many times
MaxNow == 2
\* successful begins are told apart up to this many
MaxSessions == 2

\* --------------------------------------------------------------- constants
\* NimBLEDevice::setMTU(512)
RequestedMTU == 512
\* "MTU - 3 bytes for ATT header"
AttHeader == 3
\* uint16_t
Uint16 == 65536

\* unsigned long (32 bits) as two 16-bit halves <<high, low>>
Zero32 == <<0, 0>>
One32 == <<0, 1>>
Max32 == <<Uint16 - 1, Uint16 - 1>>

\* a + b of two unsigned long values, and the carry out of bit 31
Add32(a, b) ==
  <<(a[1] + b[1] + ((a[2] + b[2]) \div Uint16)) % Uint16, (a[2] + b[2]) % Uint16>>
Carry32(a, b) == (a[1] + b[1] + ((a[2] + b[2]) \div Uint16)) \div Uint16

\* a - b of two unsigned long values
Sub32_noBorrow(a, b) ==
  <<(Uint16 + a[1] - b[1]) % Uint16, (Uint16 + a[2] - b[2]) % Uint16>>
Sub32(a, b) ==
  <<(2 * Uint16 + a[1] - b[1] - (IF a[2] < b[2] THEN 1 ELSE 0)) % Uint16,
    (Uint16 + a[2] - b[2]) % Uint16>>

\* a < b, a >= b of two unsigned long values
Lt32(a, b) == a[1] < b[1] \/ (a[1] = b[1] /\ a[2] < b[2])
Geq32(a, b) == ~Lt32(a, b)
\* int8_t
Int8Min == -128
Int8Max == 127
\* advPowerDbm < -12 || advPowerDbm > 9
MinPowerDbm == -12
MaxPowerDbm == 9
\* advIntervalMs < 20 || advIntervalMs > 10240
MinIntervalMs == 20
MaxIntervalMs == 10240
\* "minimum is 20ms (32 units), maximum is 10240ms (16384 units)"
MinIntervalUnits == 32
MaxIntervalUnits == 16384
\* int8_t advPowerDbm = 9, uint16_t advIntervalMs = 100
DefaultPowerDbm == 9
DefaultIntervalMs == 100

NULL == "nullptr"
SERVER == "server"
CHARACTERISTIC == "characteristic"
BMLK_SERVICE_UUID == "12345678-1234-1234-1234-1234567890ab"
BMLK_CHARACTERISTIC_UUID == "12345678-1234-1234-1234-1234567890ac"

Threads == {"main", "stack"}

\* A text of n bytes whose content depends on the position.
Text(n) == [i \in 1..n |-> 65 + (i % 7)]

\* NimBLEDevice::getMTU() after setMTU(512)
getMTU == RequestedMTU

\* uint16_t maxSize = NimBLEDevice::getMTU() - 3;
maxSize == (getMTU - AttHeader) % Uint16

\* outbound texts tried: empty, short, exactly fitting, one byte too long
Msgs == {Text(0), Text(ShortLen), Text(maxSize), Text(maxSize + 1)}
\* inbound writes tried: empty, short
RxValues == {Text(0), Text(ShortLen)}

Names == {NULL, "", "A", "B"}
UuidArgs == {[s |-> NULL, c |-> NULL], [s |-> "S1", c |-> "C1"]}
\* the stack call of begin that fails, if any
FailPoints == {"none", "createServer", "createService",
               "createCharacteristic", "serviceStart", "startAdvertising"}
\* message handlers an application registers: none (nullptr), one that
\* ignores the frame, one that replies with the frame's text, one that
\* keeps the reply function for later use
Handlers == {NULL, "silent", "echo", "keep"}

VARIABLES
  initialized, deviceConnected, pServer, pChar,
  deviceName, serviceUuid, characteristicUuid,
  messageHandler, messagesReceived, messagesSent, errorCount,
  startTime,        \* millis() at the last successful begin or resetStats
  now,              \* millis()
  ticks,            \* number of times the clock has been advanced
  cfgPower,         \* advertising power the application passes to begin
  cfgInterval,      \* advertising interval the application passes to begin
  txPower,          \* stack: power level set by NimBLEDevice::setPower
  advUnits,         \* stack: advertising interval set, in 0.625 ms units
  tested,           \* the handler onWrite found registered, until it calls it
  sessions,         \* number of successful begins so far (up to MaxSessions)
  g_nexState,       \* the global store pointer: NULL or the store
  config,           \* NexState: the NexStateConfig the store was built with
  stateValues,      \* NexState: the entry of every key (NoEntry: key absent)
  changeCallback,   \* NexState: the subscribed callback
  lastOutputTime,   \* NexState: millis() at the last output
  everSet,          \* the keys set on the store so far
  quiet,            \* time since the store last emitted a snapshot (or was
                    \* built), and whether that is 2^32 ms or more
  readValue,        \* the value every entry held when it was last marked as
                    \* read, or when it was created if it never was
  managerRef,       \* app: the BLE manager the hooks share (NULL: none)
  scanState,        \* app, scanning hook: idle, scanning, error, ...
  devices,          \* app, scanning hook: the device list
  isListFrozen,     \* app, scanning hook: the list takes no new devices
  scanTimeoutRef,   \* app, scanning hook: id of the timer the hook holds
  timers,           \* app: the pending auto-stop timers, each with the
                    \* scanState its stopScan was created with
  deviceScan,       \* app, BLE manager: a device scan is running, and the
                    \* isListFrozen its listener was created with
  starts,           \* app: the startScan calls waiting for the permissions
  scans,            \* app: number of startScan calls that passed the checks
  connectedDevice,  \* app, connection hook: the connected device
  deviceRef,        \* app, connection hook: the device reference
  characteristicRef,\* app, connection hook: the characteristic reference
  error,            \* app, connection hook: the error text shown
  calls,            \* app: the connectToDevice calls made so far
  attempts,         \* connection attempts each connectToDevice call made
  advertising,      \* stack: advertising is active
  peerLinked,       \* stack: a central is attached
  pc,               \* position of each context
  arg,              \* text a context's running notify was called with
  via,              \* "notify" or "reply": how the running notify was entered
  raced,            \* what happened since a context's notify passed its checks
  keptReply,        \* the application holds a reply function
  crashed,          \* a null handle was dereferenced and the device halted
  last,             \* the step just taken
  lastEvent         \* most recent of begin(success)/connect/disconnect/end

engine == <<initialized, deviceConnected, pServer, pChar, deviceName,
            serviceUuid, characteristicUuid, messageHandler>>
stats == <<messagesReceived, messagesSent, errorCount>>
stackv == <<advertising, peerLinked>>
ctl == <<pc, arg, via, raced, keptReply, crashed>>
given == <<now, ticks, cfgPower, cfgInterval>>
radio == <<txPower, advUnits>>
beam == <<engine, stats, stackv, ctl, lastEvent, startTime, cfgPower, cfgInterval,
          radio, tested, sessions>>
store == <<g_nexState, config, stateValues, changeCallback, lastOutputTime,
           everSet>>
scanning == <<scanState, devices, isListFrozen, scanTimeoutRef, timers, deviceScan,
              starts, scans>>
connecting == <<connectedDevice, deviceRef, characteristicRef, error, calls,
                attempts>>
app == <<managerRef, scanning, connecting>>
vars == <<engine, stats, stackv, ctl, last, lastEvent, startTime, given, radio,
          tested, sessions, store, quiet, readValue, app>>

NoStep == [op |-> "init", thread |-> "main", via |-> "none", in |-> <<>>,
           ret |-> TRUE, tx |-> FALSE, frame |-> <<>>, raced |-> "none",
           deref |-> FALSE, empty |-> FALSE, called |-> NULL, text |-> <<>>,
           seen |-> 0, case |-> "none", name |-> NULL, prior |-> <<0, 0, 0>>,
           from |-> "", base |-> Zero32, by |-> Zero32,
           key |-> "", kind |-> "none", value |-> 0, emitted |-> 0,
           format |-> "none", snapshot |-> {}, dirty |-> {}, calls |-> <<>>,
           got |-> 0, keys |-> {}, was |-> "none", str |-> "",
           id |-> 0, rssi |-> 0, frozen |-> FALSE, call |-> 0]

Step(op, t) == [NoStep EXCEPT !.op = op, !.thread = t]

\* ---------------------------------------------------- NexState: entries
StoreKeys == {"ledOn", "count"}
\* StateValue<bool>, StateValue<int>; false/true are written 0/1
Kinds == {"bool", "int"}
KindValues == {0, 1}
Callbacks == {NULL, "cb1", "cb2"}

\* no element of stateValues for the key
NoEntry == [kind |-> "none", currentValue |-> 0, previousValue |-> 0,
            changed |-> FALSE]

\* StateValue(const T& initialValue)
StateValue(kind, initialValue) ==
  [kind |-> kind, currentValue |-> initialValue, previousValue |-> initialValue,
   changed |-> FALSE]

\* what g_nexState holds once make_unique<NexState> has run
STORE == "NexState"

\* NexStateConfig with its default member values
NexStateConfig ==
  [enableSerialOutput |-> TRUE, enableJsonFormat |-> TRUE,
   enableChangeDetection |-> TRUE, outputIntervalMs |-> <<0, 1000>>,
   outputOnChange |-> TRUE, outputOnInterval |-> FALSE]

\* NexState::NexState(config)
NexState(cfg) ==
  /\ g_nexState = STORE
  /\ config = cfg
  /\ stateValues = [k \in StoreKeys |-> NoEntry]
  /\ changeCallback = NULL
  /\ lastOutputTime = now
  /\ everSet = {}
  /\ quiet = <<Zero32, FALSE>>
  /\ readValue = [k \in StoreKeys |-> 0]

\* the engine as constructed when millis() reads clock, in an application
\* that will pass the given advertising power and interval to begin
EngineAt(clock, power, interval) ==
  /\ initialized = FALSE
  /\ deviceConnected = FALSE
  /\ pServer = NULL
  /\ pChar = NULL
  /\ deviceName = ""
  /\ serviceUuid = ""
  /\ characteristicUuid = ""
  /\ messageHandler = NULL
  /\ messagesReceived = 0
  /\ messagesSent = 0
  /\ errorCount = 0
  /\ advertising = FALSE
  /\ peerLinked = FALSE
  /\ pc = [t \in Threads |-> "idle"]
  /\ arg = [t \in Threads |-> <<>>]
  /\ via = [t \in Threads |-> "none"]
  /\ raced = [t \in Threads |-> "none"]
  /\ keptReply = FALSE
  /\ crashed = FALSE
  /\ last = NoStep
  /\ lastEvent = "none"
  /\ startTime = Zero32
  /\ now = clock
  /\ ticks = 0
  /\ cfgPower = power
  /\ cfgInterval = interval
  /\ txPower = 0
  /\ advUnits = 0
  /\ tested = NULL
  /\ sessions = 0

\* ------------------------------------------------------ the app: its hooks
\* BLE_CONFIG
MAX_DEVICES == 50
RETRY_ATTEMPTS == 3
\* startScan calls that pass the checks, connectToDevice calls made
MaxScans == 2
MaxCalls == 2
BLE_MANAGER == "BleManager"
\* scanTimeoutRef.current is null (timer ids start at 1)
NoTimer == 0
\* the BLE manager runs no device scan
NoScan == [on |-> FALSE, frozen |-> FALSE]
\* connectedDevice is null
NoDevice == [id |-> NULL, connectionState |-> NULL]
CallIds == 1..MaxCalls

\* the scanning hook's state and ref as first rendered
useBLEScanning ==
  /\ scanState = "idle"
  /\ devices = <<>>
  /\ isListFrozen = FALSE
  /\ scanTimeoutRef = NoTimer
  /\ timers = {}
  /\ deviceScan = NoScan
  /\ starts = {}
  /\ scans = 0

\* the connection hook's state and refs as first rendered
useBLE ==
  /\ connectedDevice = NoDevice
  /\ deviceRef = NULL
  /\ characteristicRef = NULL
  /\ error = NULL
  /\ calls = [c \in CallIds |-> [pc |-> "unused", device |-> NULL,
                                  retryCount |-> 0, ret |-> FALSE,
                                  seen |-> NoDevice]]
  /\ attempts = [c \in CallIds |-> 0]

\* the app as mounted, with the BLE manager its effect created (or none,
\* when the constructor threw)
AppMounted(manager) == managerRef = manager /\ useBLEScanning /\ useBLE

\* both objects as constructed, the store with the default configuration
BootAt(clock, power, interval) ==
  /\ EngineAt(clock, power, interval)
  /\ NexState(NexStateConfig)
  /\ AppMounted(BLE_MANAGER)

Boot(power, interval) == BootAt(Zero32, power, interval)

Init == Boot(DefaultPowerDbm, DefaultIntervalMs)

MainIdle == ~crashed /\ pc["main"] = "idle"
StackIdle == ~crashed /\ pc["stack"] = "idle"

\* ------------------------------------------------------------------ begin
\* if (initialized) return false;
AlreadyInitialized_off == FALSE
AlreadyInitialized_once == initialized \/ sessions > 0
AlreadyInitialized == initialized

\* if (!deviceName || strlen(deviceName) == 0) return false;
InvalidName_nullOnly(name) == name = NULL
InvalidName(name) == name = NULL \/ name = ""

Min(a, b) == IF a < b THEN a ELSE b
Max(a, b) == IF a > b THEN a ELSE b

\* lines 82-85: an advertising power outside [-12, 9] is clamped
ClampPower(advPowerDbm) ==
  IF advPowerDbm < MinPowerDbm \/ advPowerDbm > MaxPowerDbm
  THEN Max(MinPowerDbm, Min(MaxPowerDbm, advPowerDbm))
  ELSE advPowerDbm

\* lines 87-90: an advertising interval outside [20, 10240] is clamped
ClampInterval(advIntervalMs) ==
  IF advIntervalMs < MinIntervalMs \/ advIntervalMs > MaxIntervalMs
  THEN Max(MinIntervalMs, Min(MaxIntervalMs, advIntervalMs))
  ELSE advIntervalMs

\* uint16_t intervalUnits = (intervalMs * 16) / 10;
\* the product is computed in int (32 bits) and the quotient stored in 16
ToUnits_16bit(intervalMs) == ((intervalMs * 16) % Uint16) \div 10
ToUnits(intervalMs) == ((intervalMs * 16) \div 10) % Uint16

\* startAdvertising, lines 190-198: the interval given to
\* setMinInterval/setMaxInterval
IntervalUnits(intervalMs) ==
  Max(MinIntervalUnits, Min(MaxIntervalUnits, ToUnits(intervalMs)))

\* millis()
millis_stale == startTime
millis == now

\* messagesReceived = 0; messagesSent = 0; errorCount = 0;
StatsAtBegin_kept(n) == n
StatsAtBegin(n) == 0

\* the handles and stack state begin leaves behind when the stack call
\* failAt fails ("none": every call succeeds)
ServerAfter(failAt) == IF failAt = "createServer" THEN NULL ELSE SERVER

CharAfter(failAt) ==
  IF failAt \in {"createServer", "createService"} THEN pChar
  ELSE IF failAt = "createCharacteristic" THEN NULL
  ELSE CHARACTERISTIC

\* begin, lines 69-147, called with the application's power and interval.
\* setPower (107-108) comes before the first stack call that can fail;
\* the interval reaches the stack in startAdvertising (130).
begin(name, uu, failAt) ==
  /\ MainIdle
  /\ IF AlreadyInitialized
     THEN /\ last' = [Step("begin", "main") EXCEPT !.ret = FALSE, !.case = "already",
                        !.name = name]
          /\ UNCHANGED <<engine, stats, stackv, ctl, lastEvent, startTime, radio,
                         sessions>>
     ELSE IF InvalidName(name)
     THEN /\ last' = [Step("begin", "main") EXCEPT !.ret = FALSE, !.case = "name",
                        !.name = name]
          /\ UNCHANGED <<engine, stats, stackv, ctl, lastEvent, startTime, radio,
                         sessions>>
     ELSE /\ deviceName' = name
          /\ serviceUuid' = IF uu.s # NULL THEN uu.s ELSE BMLK_SERVICE_UUID
          /\ characteristicUuid' = IF uu.c # NULL THEN uu.c ELSE BMLK_CHARACTERISTIC_UUID
          /\ txPower' = ClampPower(cfgPower)
          /\ pServer' = ServerAfter(failAt)
          /\ pChar' = CharAfter(failAt)
          /\ advUnits' = IF failAt \in {"none", "startAdvertising"}
                         THEN IntervalUnits(ClampInterval(cfgInterval))
                         ELSE advUnits
          /\ IF failAt = "none"
             THEN /\ advertising' = TRUE
                  /\ initialized' = TRUE
                  /\ startTime' = millis
                  /\ messagesReceived' = StatsAtBegin(messagesReceived)
                  /\ messagesSent' = StatsAtBegin(messagesSent)
                  /\ errorCount' = StatsAtBegin(errorCount)
                  /\ lastEvent' = "begin"
                  /\ sessions' = Min(sessions + 1, MaxSessions)
                  /\ last' = [Step("begin", "main") EXCEPT !.ret = TRUE, !.case = "ok",
                                !.name = name,
                                !.prior = <<messagesReceived, messagesSent, errorCount>>,
                                !.from = deviceName, !.base = startTime]
             ELSE /\ last' = [Step("begin", "main") EXCEPT !.ret = FALSE, !.case = failAt,
                                !.name = name]
                  /\ UNCHANGED <<advertising, initialized, stats, lastEvent, startTime,
                                 sessions>>
          /\ UNCHANGED <<deviceConnected, messageHandler, peerLinked, ctl>>
  /\ UNCHANGED <<given, tested>>
  /\ UNCHANGED <<store, quiet, readValue, app>>

\* -------------------------------------------------------------- onMessage
onMessage(handler) ==
  /\ MainIdle
  /\ messageHandler' = handler
  /\ last' = [Step("onMessage", "main") EXCEPT !.called = handler]
  /\ UNCHANGED <<initialized, deviceConnected, pServer, pChar, deviceName,
                 serviceUuid, characteristicUuid, stats, stackv, ctl, lastEvent>>
  /\ UNCHANGED <<startTime, given, radio, tested, sessions>>
  /\ UNCHANGED <<store, quiet, readValue, app>>

\* getUptime, lines 247-250
getUptime == IF ~initialized THEN Zero32 ELSE Sub32(millis, startTime)

\* ----------------------------------------------------------------- notify
\* errorCount++
CountError_skip(n) == n
CountError_twice(n) == n + 2
CountError(n) == n + 1

\* messagesSent++
CountSent_skip(n) == n
CountSent_twice(n) == n + 2
CountSent(n) == n + 1

\* if (!initialized || !pChar || !deviceConnected)
NotifyUnavailable_noConn == ~initialized \/ pChar = NULL
NotifyUnavailable == ~initialized \/ pChar = NULL \/ ~deviceConnected

\* std::string::substr(pos, n)
substr(s, pos, n) ==
  SubSeq(s, pos + 1, IF pos + n < Len(s) THEN pos + n ELSE Len(s))

\* the value notify puts in the characteristic for a text that passed the checks
FrameFor_whole(msg) == msg
FrameFor(msg) == IF Len(msg) > maxSize THEN substr(msg, 0, maxSize) ELSE msg

\* a context's notify has returned
Returned(f, t, v) == [f EXCEPT ![t] = v]

\* notify, lines 212-221: the checks.  A text that passes them leaves the
\* context at the write, which notify_send performs.
notify(t, msg, how) ==
  /\ ~crashed
  /\ IF NotifyUnavailable \/ Len(msg) = 0
     THEN /\ errorCount < MaxCount
          /\ errorCount' = CountError(errorCount)
          /\ pc' = Returned(pc, t, "idle")
          /\ arg' = Returned(arg, t, <<>>)
          /\ last' = [Step("notify", t) EXCEPT !.via = how, !.ret = FALSE,
                        !.empty = (Len(msg) = 0),
                        !.case = IF NotifyUnavailable THEN "unavailable" ELSE "empty"]
          /\ UNCHANGED <<engine, messagesReceived, messagesSent, stackv,
                         via, raced, keptReply, crashed, lastEvent>>
     ELSE /\ pc' = Returned(pc, t, "notify_write")
          /\ arg' = Returned(arg, t, msg)
          /\ via' = Returned(via, t, how)
          /\ last' = [Step("notify_check", t) EXCEPT !.via = how]
          /\ UNCHANGED <<engine, stats, stackv, raced, keptReply, crashed, lastEvent>>
  /\ UNCHANGED <<startTime, given, radio, tested, sessions>>
  /\ UNCHANGED <<store, quiet, readValue, app>>

\* notify, lines 223-239: size check, setValue, notify(), messagesSent++.
\* pChar is read again here; when end() has released it in between, the
\* call through the null pointer is undefined: the device halts, or the
\* call has no effect and notify carries on.
notify_send(t) ==
  /\ ~crashed
  /\ pc[t] = "notify_write"
  /\ \E halts \in {h \in BOOLEAN : h => pChar = NULL} :
       /\ crashed' = halts
       /\ IF halts
          THEN UNCHANGED <<stats, pc, arg, via, raced>>
          ELSE /\ messagesSent < MaxCount
               /\ Len(arg[t]) > maxSize => errorCount < MaxCount
               /\ errorCount' = IF Len(arg[t]) > maxSize THEN CountError(errorCount)
                                 ELSE errorCount
               /\ messagesSent' = CountSent(messagesSent)
               /\ pc' = Returned(pc, t, "idle")
               /\ arg' = Returned(arg, t, <<>>)
               /\ via' = Returned(via, t, "none")
               /\ raced' = Returned(raced, t, "none")
               /\ UNCHANGED messagesReceived
       /\ last' = [Step("notify", t) EXCEPT !.via = via[t], !.ret = ~halts,
                     !.tx = (pChar # NULL),
                     !.frame = IF pChar # NULL THEN FrameFor(arg[t]) ELSE <<>>,
                     !.deref = (pChar = NULL), !.raced = raced[t],
                     !.case = IF halts THEN "halt"
                              ELSE IF Len(arg[t]) > maxSize THEN "truncated"
                              ELSE "sent"]
       /\ UNCHANGED <<engine, stackv, keptReply, lastEvent>>
  /\ UNCHANGED <<startTime, given, radio, tested, sessions>>
  /\ UNCHANGED <<store, quiet, readValue, app>>

\* the application calls notify from its loop
app_notify(msg) == MainIdle /\ notify("main", msg, "notify")

\* the application calls a reply function a handler kept
reply_kept(msg) == MainIdle /\ keptReply /\ notify("main", msg, "reply")

\* the running handler calls the reply function it was given:
\* reply = [this](msg) { if (beamLink) beamLink->notify(msg); }
reply == pc["stack"] = "handler" /\ notify("stack", arg["stack"], "reply")

\* ------------------------------------------------------ resetStats, loop
resetStats ==
  /\ MainIdle
  /\ messagesReceived' = 0
  /\ messagesSent' = 0
  /\ errorCount' = 0
  /\ startTime' = millis
  /\ last' = [Step("resetStats", "main") EXCEPT
                !.prior = <<messagesReceived, messagesSent, errorCount>>,
                !.base = startTime]
  /\ UNCHANGED <<engine, stackv, ctl, lastEvent, given, radio, tested, sessions>>
  /\ UNCHANGED <<store, quiet, readValue, app>>

loop ==
  /\ MainIdle
  /\ last' = Step("loop", "main")
  /\ UNCHANGED <<engine, stats, stackv, ctl, lastEvent>>
  /\ UNCHANGED <<startTime, given, radio, tested, sessions>>
  /\ UNCHANGED <<store, quiet, readValue, app>>

\* millis() advances by d and wraps at the size of unsigned long
tick(d) ==
  /\ ticks < MaxNow
  /\ ticks' = ticks + 1
  /\ now' = Add32(now, d)
  /\ quiet' = <<Add32(quiet[1], d), quiet[2] \/ Carry32(quiet[1], d) > 0>>
  /\ last' = [Step("tick", "main") EXCEPT !.by = d]
  /\ UNCHANGED <<store, readValue, app>>
  /\ UNCHANGED <<engine, stats, stackv, ctl, lastEvent, startTime, cfgPower,
                 cfgInterval, radio, tested, sessions>>

\* -------------------------------------------------------------------- end
\* a notify of the other context that has passed its checks is overtaken
Overtaken(what) ==
  [t \in Threads |-> IF pc[t] = "notify_write" THEN what ELSE raced[t]]

\* end, lines 266-269: nothing to do unless initialized; else the two flags
\* are cleared first
end ==
  /\ MainIdle
  /\ IF initialized
     THEN /\ deviceConnected' = FALSE
          /\ initialized' = FALSE
          /\ pc' = [pc EXCEPT !["main"] = "end_stop"]
          /\ raced' = Overtaken("end")
          /\ last' = Step("end_flags", "main")
          /\ UNCHANGED <<pServer, pChar, deviceName, serviceUuid, characteristicUuid,
                         messageHandler, stats, stackv, arg, via, keptReply,
                         crashed, lastEvent>>
     ELSE /\ last' = [Step("end", "main") EXCEPT !.case = "noop"]
          /\ lastEvent' = "end"
          /\ UNCHANGED <<engine, stats, stackv, ctl>>
  /\ UNCHANGED <<startTime, given, radio, tested, sessions>>
  /\ UNCHANGED <<store, quiet, readValue, app>>

\* end, lines 271-280: advertising stopped, handles released, stack deinit.
\* deinit drops an attached central; whether the stack reports that through
\* onDisconnect before it is gone is the stack's choice (the callback's
\* request to advertise again is then refused by the stopping stack).
end_stop_dropsHandler ==
  /\ ~crashed
  /\ pc["main"] = "end_stop"
  /\ \E reported \in {r \in BOOLEAN : r => peerLinked} :
       deviceConnected' = IF reported THEN FALSE ELSE deviceConnected
  /\ advertising' = FALSE
  /\ peerLinked' = FALSE
  /\ pChar' = NULL
  /\ pServer' = NULL
  /\ pc' = [pc EXCEPT !["main"] = "idle"]
  /\ last' = [Step("end", "main") EXCEPT !.case = "ended"]
  /\ lastEvent' = "end"
  /\ messageHandler' = NULL
  /\ UNCHANGED <<initialized, deviceName, serviceUuid, characteristicUuid,
                 stats, arg, via, raced, keptReply, crashed>>
  /\ UNCHANGED <<startTime, given, radio, tested, sessions>>
  /\ UNCHANGED <<store, quiet, readValue, app>>
end_stop ==
  /\ ~crashed
  /\ pc["main"] = "end_stop"
  /\ \E reported \in {r \in BOOLEAN : r => peerLinked} :
       deviceConnected' = IF reported THEN FALSE ELSE deviceConnected
  /\ advertising' = FALSE
  /\ peerLinked' = FALSE
  /\ pChar' = NULL
  /\ pServer' = NULL
  /\ pc' = [pc EXCEPT !["main"] = "idle"]
  /\ last' = [Step("end", "main") EXCEPT !.case = "ended"]
  /\ lastEvent' = "end"
  /\ UNCHANGED <<initialized, deviceName, serviceUuid, characteristicUuid,
                 messageHandler, stats, arg, via, raced, keptReply, crashed>>
  /\ UNCHANGED <<startTime, given, radio, tested, sessions>>
  /\ UNCHANGED <<store, quiet, readValue, app>>

\* -------------------------------------------------------- stack callbacks
\* ServerCallbacks::onConnect; a central can attach only while the device
\* advertises, and the stack stops advertising when it does
onConnect ==
  /\ StackIdle
  /\ advertising /\ ~peerLinked
  /\ deviceConnected' = TRUE
  /\ peerLinked' = TRUE
  /\ advertising' = FALSE
  /\ last' = Step("onConnect", "stack")
  /\ lastEvent' = "connect"
  /\ UNCHANGED <<initialized, pServer, pChar, deviceName, serviceUuid,
                 characteristicUuid, messageHandler, stats, ctl>>
  /\ UNCHANGED <<startTime, given, radio, tested, sessions>>
  /\ UNCHANGED <<store, quiet, readValue, app>>

\* ServerCallbacks::onDisconnect without the call that restarts advertising
onDisconnect_noRestart ==
  /\ StackIdle
  /\ peerLinked
  /\ deviceConnected' = FALSE
  /\ peerLinked' = FALSE
  /\ raced' = Overtaken("disconnect")
  /\ last' = Step("onDisconnect", "stack")
  /\ lastEvent' = "disconnect"
  /\ UNCHANGED <<initialized, pServer, pChar, deviceName, serviceUuid,
                 characteristicUuid, messageHandler, stats, advertising, pc,
                 arg, via, keptReply, crashed>>
  /\ UNCHANGED <<startTime, given, radio, tested, sessions>>
  /\ UNCHANGED <<store, quiet, readValue, app>>

\* ServerCallbacks::onDisconnect; the stack, up since begin, honours the
\* request to advertise again (its result is not looked at)
onDisconnect ==
  /\ StackIdle
  /\ peerLinked
  /\ deviceConnected' = FALSE
  /\ peerLinked' = FALSE
  /\ advertising' = TRUE
  /\ raced' = Overtaken("disconnect")
  /\ last' = Step("onDisconnect", "stack")
  /\ lastEvent' = "disconnect"
  /\ UNCHANGED <<initialized, pServer, pChar, deviceName, serviceUuid,
                 characteristicUuid, messageHandler, stats, pc, arg, via,
                 keptReply, crashed>>
  /\ UNCHANGED <<startTime, given, radio, tested, sessions>>
  /\ UNCHANGED <<store, quiet, readValue, app>>

\* beamLink->messagesReceived++
CountReceived_skip(n) == n
CountReceived(n) == n + 1

\* RxCallbacks::onWrite, lines 32-41: the value is read and counted and
\* the handler slot tested
onWrite(rxValue) ==
  /\ StackIdle
  /\ peerLinked
  /\ IF Len(rxValue) > 0
     THEN /\ messagesReceived < MaxCount
          /\ messagesReceived' = CountReceived(messagesReceived)
          /\ IF messageHandler # NULL
             THEN /\ last' = [Step("onWrite", "stack") EXCEPT !.in = rxValue,
                                !.case = "accepted"]
                  /\ pc' = [pc EXCEPT !["stack"] = "dispatch"]
                  /\ arg' = [arg EXCEPT !["stack"] = rxValue]
                  /\ tested' = messageHandler
             ELSE /\ last' = [Step("onWrite", "stack") EXCEPT !.in = rxValue,
                                !.case = "dropped"]
                  /\ UNCHANGED <<pc, arg, tested>>
          /\ UNCHANGED <<engine, messagesSent, errorCount, stackv, via, raced,
                         keptReply, crashed, lastEvent>>
     ELSE /\ last' = [Step("onWrite", "stack") EXCEPT !.in = rxValue, !.case = "empty"]
          /\ UNCHANGED <<engine, stats, stackv, ctl, lastEvent, tested>>
  /\ UNCHANGED <<startTime, given, radio, sessions>>
  /\ UNCHANGED <<store, quiet, readValue, app>>

\* the handler slot as the call at line 49 finds it: the slot is a plain
\* member, read a second time here
SlotAtCall == messageHandler

\* RxCallbacks::onWrite, lines 43-49: beamLink->messageHandler(rxValue, reply).
\* Calling a slot that has been emptied since the test halts the device.
onWrite_call ==
  /\ ~crashed
  /\ pc["stack"] = "dispatch"
  /\ IF SlotAtCall = NULL
     THEN /\ crashed' = TRUE
          /\ last' = [Step("handler", "stack") EXCEPT !.case = "halt"]
          /\ UNCHANGED <<pc, arg, keptReply, tested>>
     ELSE /\ last' = [Step("handler", "stack") EXCEPT !.called = SlotAtCall,
                        !.text = arg["stack"], !.seen = messagesReceived,
                        !.case = "handled"]
          /\ pc' = [pc EXCEPT !["stack"] =
                      IF SlotAtCall = "echo" THEN "handler" ELSE "idle"]
          /\ arg' = [arg EXCEPT !["stack"] =
                      IF SlotAtCall = "echo" THEN arg["stack"] ELSE <<>>]
          /\ keptReply' = (keptReply \/ SlotAtCall = "keep")
          /\ tested' = NULL
          /\ UNCHANGED crashed
  /\ UNCHANGED <<engine, stats, stackv, via, raced, lastEvent, startTime, given,
                 radio, sessions>>
  /\ UNCHANGED <<store, quiet, readValue, app>>

\* ---------------------------------------------------------- specifications
\* Message traffic: every text, inbound value and handler; one device name
\* and no failing stack call.
TrafficNames == {"A"}
TrafficUuids == {[s |-> NULL, c |-> NULL]}
TrafficFails == {"none"}

Next ==
  \/ \E name \in TrafficNames, uu \in TrafficUuids, failAt \in TrafficFails :
       begin(name, uu, failAt)
  \/ \E handler \in Handlers : onMessage(handler)
  \/ \E msg \in Msgs : app_notify(msg)
  \/ \E msg \in Msgs : reply_kept(msg)
  \/ reply
  \/ \E t \in Threads : notify_send(t)
  \/ resetStats
  \/ loop
  \/ end
  \/ end_stop
  \/ onConnect
  \/ onDisconnect
  \/ \E rxValue \in RxValues : onWrite(rxValue)
  \/ onWrite_call

Spec == Init /\ [][Next]_vars

\* Lifecycle: every device name, identifier pair and failing stack call; one
\* short text in each direction.
LifeMsgs == {Text(ShortLen)}

NextLife ==
  \/ \E name \in Names, uu \in UuidArgs, failAt \in FailPoints : begin(name, uu, failAt)
  \/ \E handler \in {NULL, "echo"} : onMessage(handler)
  \/ \E msg \in LifeMsgs : app_notify(msg)
  \/ reply
  \/ \E t \in Threads : notify_send(t)
  \/ resetStats
  \/ loop
  \/ end
  \/ end_stop
  \/ onConnect
  \/ onDisconnect
  \/ \E rxValue \in LifeMsgs : onWrite(rxValue)
  \/ onWrite_call

SpecLife == Init /\ [][NextLife]_vars

\* Time: the clock advances between the operations that read it; one
\* device name, no failing stack call, one short text in each direction.
\* time that passes between two operations: a millisecond, or the longest
\* span an unsigned long holds
TickSizes == {One32, Max32}

NextTime ==
  \/ \E d \in TickSizes : tick(d)
  \/ \E name \in TrafficNames, uu \in TrafficUuids, failAt \in TrafficFails :
       begin(name, uu, failAt)
  \/ \E msg \in LifeMsgs : app_notify(msg)
  \/ \E t \in Threads : notify_send(t)
  \/ resetStats
  \/ end
  \/ end_stop
  \/ onConnect
  \/ onDisconnect
  \/ \E rxValue \in LifeMsgs : onWrite(rxValue)

SpecTime == Init /\ [][NextTime]_vars

\* Advertising parameters: the application passes any power of the int8_t
\* range with the default interval, any interval of the uint16_t range with
\* the default power, or the two extremes together.
InitClamp ==
  \E input \in {<<p, DefaultIntervalMs>> : p \in Int8Min..Int8Max}
                 \cup {<<DefaultPowerDbm, i>> : i \in 0..(Uint16 - 1)}
                 \cup {<<Int8Min, 0>>, <<Int8Max, Uint16 - 1>>} :
    Boot(input[1], input[2])

NextClamp ==
  \E name \in TrafficNames, uu \in TrafficUuids, failAt \in TrafficFails :
    begin(name, uu, failAt)

SpecClamp == InitClamp /\ [][NextClamp]_vars

\* ------------------------------------------------------------------ claims
\* the step enters notify (from the application or through a reply function)
NotifyEntered ==
  /\ last'.op \in {"notify", "notify_check"}
  /\ pc[last'.thread] # "notify_write"

\* the step is the second half of a notify that had passed its checks
NotifyFinished ==
  /\ last'.op = "notify"
  /\ pc[last'.thread] = "notify_write"

\* C1: whenever isConnected() is false, notify of a non-empty text returns
\* false, hands no frame to the transport, leaves sent unchanged and raises
\* errors by exactly 1.
C1_NotifyNeedsConnection ==
  [][(NotifyEntered /\ ~deviceConnected /\ ~last'.empty) =>
       /\ last'.op = "notify"
       /\ last'.ret = FALSE
       /\ last'.tx = FALSE
       /\ messagesSent' = messagesSent
       /\ messagesReceived' = messagesReceived
       /\ errorCount' = errorCount + 1]_vars

C1_Witness ==
  /\ last.op = "notify" /\ last.via = "notify" /\ last.case = "unavailable"
  /\ ~last.empty /\ ~last.ret
  /\ initialized /\ pChar # NULL /\ ~deviceConnected
  /\ errorCount = 1

\* C2: a text longer than MTU-3 bytes, sent by notify while initialized and
\* connected, goes out as exactly its first MTU-3 bytes, with errors and sent
\* each raised by exactly 1 and the result true; no frame handed to the
\* transport is ever longer than MTU-3 bytes.
C2_TruncationLaw ==
  [][/\ (NotifyFinished /\ initialized /\ deviceConnected
           /\ Len(arg[last'.thread]) > RequestedMTU - AttHeader) =>
          /\ last'.tx
          /\ last'.frame = SubSeq(arg[last'.thread], 1, RequestedMTU - AttHeader)
          /\ errorCount' = errorCount + 1
          /\ messagesSent' = messagesSent + 1
          /\ last'.ret = TRUE
     /\ last'.tx => Len(last'.frame) <= RequestedMTU - AttHeader]_vars

C2_Witness ==
  /\ last.op = "notify" /\ last.case = "truncated" /\ last.tx /\ last.ret
  /\ Len(last.frame) = RequestedMTU - AttHeader
  /\ initialized /\ deviceConnected
  /\ errorCount = 1 /\ messagesSent = 1

\* C3: a disconnect event delivered while the engine is initialized leaves
\* isConnected() false and advertising on again, so that an initialized
\* engine is at every moment either connected or advertising.
C3_AutoReadvertise ==
  [][/\ (last'.op = "onDisconnect" /\ initialized) =>
          (~deviceConnected' /\ advertising')
     /\ initialized' => ((deviceConnected' /\ peerLinked') \/ advertising')]_vars

C3_Witness ==
  /\ last.op = "onDisconnect"
  /\ initialized /\ ~deviceConnected /\ ~peerLinked /\ advertising

\* C4: begin on an initialized engine returns false and changes nothing: the
\* device name, the counters, the connection state and the initialized flag
\* stay as the first begin left them, whatever the second call passes.
C4_SecondBeginRejected ==
  [][(last'.op = "begin" /\ initialized) =>
       /\ last'.ret = FALSE
       /\ UNCHANGED <<engine, stats, stackv, ctl, lastEvent>>]_vars

C4_Witness ==
  /\ last.op = "begin" /\ last.case = "already" /\ ~last.ret
  /\ initialized /\ deviceConnected /\ deviceName = "A"
  /\ messagesReceived > 0

\* C5: a begin that fails in the stack (server, service, characteristic or
\* advertising) returns false and leaves the device name, the identifiers,
\* the handles, the statistics and both flags as they were.
C5_FailedBeginChangesNothing ==
  [][(last'.op = "begin" /\ last'.case \in FailPoints \ {"none"}) =>
       /\ last'.ret = FALSE
       /\ UNCHANGED <<engine, stats>>]_vars

\* C6: when a disconnect event (or end) comes between notify's connected
\* check and its write, notify counts an error, records no send and
\* dereferences no released handle.
C6_RacedNotifyCountsError ==
  [][(NotifyFinished /\ last'.raced # "none") =>
       /\ errorCount' = errorCount + 1
       /\ messagesSent' = messagesSent
       /\ ~last'.deref]_vars

C8_EmptyWriteCountsError ==
  [][(last'.op = "onWrite" /\ Len(last'.in) = 0) =>
       /\ last'.called = NULL
       /\ messagesReceived' = messagesReceived
       /\ errorCount' = errorCount + 1]_vars

\* C9: a reply function called after the peer has disconnected, or after
\* end, transmits nothing, raises errors by exactly 1, leaves sent unchanged
\* and returns to its caller.
C9_LateReplyFailsQuietly ==
  [][(NotifyEntered /\ last'.via = "reply" /\ ~last'.empty
        /\ (~deviceConnected \/ ~initialized)) =>
       /\ last'.op = "notify"
       /\ last'.tx = FALSE
       /\ errorCount' = errorCount + 1
       /\ messagesSent' = messagesSent
       /\ pc'[last'.thread] = "idle"
       /\ ~crashed']_vars

C9_Witness ==
  /\ last.op = "notify" /\ last.via = "reply" /\ last.thread = "main"
  /\ last.case = "unavailable" /\ ~last.empty
  /\ initialized /\ lastEvent = "disconnect" /\ ~deviceConnected
  /\ errorCount = 1 /\ messagesSent = 0

\* C10: between operations, isConnected() is true exactly when the most
\* recent of successful begin, connect event, disconnect event and end was a
\* connect event.
C10_ConnectedIffLastEventConnect ==
  pc["main"] = "idle" => (deviceConnected <=> lastEvent = "connect")

\* C11: notify called while the engine is not initialized, or with an empty
\* text, returns false, hands no frame to the transport and raises errors by
\* exactly 1, also when both conditions (or a missing peer too) hold at once.
C11_RejectedNotifyCountsOnce ==
  [][(NotifyEntered /\ (~initialized \/ last'.empty)) =>
       /\ last'.op = "notify"
       /\ last'.ret = FALSE
       /\ last'.tx = FALSE
       /\ errorCount' = errorCount + 1
       /\ messagesSent' = messagesSent
       /\ messagesReceived' = messagesReceived]_vars

C11_Witness ==
  /\ last.op = "notify" /\ last.via = "notify" /\ ~last.ret /\ last.empty
  /\ ~initialized /\ ~deviceConnected /\ sessions = 0
  /\ errorCount = 1

\* C12: notify of a non-empty text of at most MTU-3 bytes, with the engine
\* initialized and a peer connected, returns true, hands the text unchanged
\* to the transport, raises sent by exactly 1 and leaves errors and received
\* as they were.
C12_NotifyDeliversText ==
  [][(NotifyFinished /\ initialized /\ deviceConnected
        /\ Len(arg[last'.thread]) > 0
        /\ Len(arg[last'.thread]) <= RequestedMTU - AttHeader) =>
       /\ last'.ret = TRUE
       /\ last'.tx
       /\ last'.frame = arg[last'.thread]
       /\ messagesSent' = messagesSent + 1
       /\ errorCount' = errorCount
       /\ messagesReceived' = messagesReceived]_vars

C12_Witness ==
  /\ last.op = "notify" /\ last.case = "sent" /\ last.ret /\ last.tx
  /\ last.frame = Text(RequestedMTU - AttHeader)
  /\ initialized /\ deviceConnected
  /\ messagesSent = 1 /\ errorCount = 0

\* C13: when end() returns on an engine that was initialized, the engine is
\* not initialized, isConnected() is false, advertising is stopped and both
\* handles are released; from then on a notify that is entered while the
\* engine is not initialized fails; end() on an engine that is not
\* initialized changes nothing.
C13_EndCleansUp ==
  [][/\ (last'.op = "end" /\ last'.case = "ended") =>
          /\ ~initialized' /\ ~deviceConnected' /\ ~advertising'
          /\ pChar' = NULL /\ pServer' = NULL
     /\ (NotifyEntered /\ ~initialized) =>
          (last'.op = "notify" /\ ~last'.ret /\ ~last'.tx)
     /\ (last'.op = "end" /\ last'.case = "noop") =>
          UNCHANGED <<engine, stats, stackv, ctl, startTime, radio>>]_vars

\* C14: a begin on an engine that is not initialized, in particular after
\* end() and with another name than the session before, succeeds unless the
\* name is invalid or a stack call fails, and getDeviceName() is then the
\* name passed; this holds for every repetition of the begin/end cycle.
C14_BeginAgainAfterEnd ==
  [][(last'.op = "begin" /\ ~initialized /\ ~InvalidName(last'.name)
        /\ last'.case \notin FailPoints \ {"none"}) =>
       /\ last'.case = "ok"
       /\ last'.ret = TRUE
       /\ initialized'
       /\ deviceName' = last'.name]_vars

C14_Witness ==
  /\ last.op = "begin" /\ last.case = "ok" /\ last.ret
  /\ sessions = MaxSessions /\ lastEvent = "begin"
  /\ last.from = "A" /\ last.name = "B"
  /\ initialized /\ deviceName = "B"

\* C15: onMessage replaces the registered handler; an inbound frame is
\* handled by the handler that was registered when its processing began,
\* also when onMessage is called while the frame is being processed, and
\* by no other.
C15_FrameGoesToHandlerAtArrival ==
  [][/\ last'.op = "onMessage" => messageHandler' = last'.called
     /\ (last'.op = "onWrite" /\ last'.case = "accepted") =>
          tested' = messageHandler
     /\ last'.op = "handler" =>
          (last'.case = "handled" /\ last'.called = tested)]_vars

\* C16: resetStats sets received, sent and errors to 0 and the uptime base
\* to the current instant, and leaves the device name, the connection
\* state, the initialized flag and the registered handler as they were.
C16_ResetStatsEffect ==
  [][last'.op = "resetStats" =>
       /\ messagesReceived' = 0 /\ messagesSent' = 0 /\ errorCount' = 0
       /\ startTime' = now
       /\ UNCHANGED <<deviceName, deviceConnected, initialized, messageHandler,
                      stackv>>]_vars

C16_Witness ==
  /\ last.op = "resetStats"
  /\ last.prior = <<1, 1, 1>> /\ last.base # now
  /\ messagesReceived = 0 /\ messagesSent = 0 /\ errorCount = 0
  /\ startTime = now
  /\ initialized /\ deviceConnected /\ deviceName = "A"

\* C17: no step other than resetStats and a successful begin lowers
\* received, sent or errors, and no step of a notify call or of the handling
\* of an inbound frame raises any of them by more than 1.
C17_CountersMonotone ==
  [][(last'.op # "resetStats" /\ ~(last'.op = "begin" /\ last'.ret)) =>
       /\ messagesReceived' \in {messagesReceived, messagesReceived + 1}
       /\ messagesSent' \in {messagesSent, messagesSent + 1}
       /\ errorCount' \in {errorCount, errorCount + 1}
       /\ last'.op \notin {"notify", "notify_check", "onWrite", "handler"} =>
            UNCHANGED stats]_vars

C17_Witness ==
  /\ last.op = "notify" /\ last.case = "truncated"
  /\ errorCount = MaxCount /\ messagesSent = 1 /\ messagesReceived = 1

\* C18: a successful begin leaves received, sent and errors at 0 and the
\* uptime base at the instant of that begin, whatever the counters held
\* before it.
C18_BeginZeroesStats ==
  [][(last'.op = "begin" /\ last'.ret) =>
       /\ messagesReceived' = 0 /\ messagesSent' = 0 /\ errorCount' = 0
       /\ startTime' = now]_vars

C18_Witness ==
  /\ last.op = "begin" /\ last.ret /\ sessions = MaxSessions
  /\ last.prior = <<1, 1, 1>> /\ last.base # now
  /\ messagesReceived = 0 /\ messagesSent = 0 /\ errorCount = 0
  /\ startTime = now

\* C19: begin with a null or empty device name returns false, makes no call
\* to the BLE stack and leaves the initialized flag, the device name, the
\* statistics and the connection state as they were.
C19_InvalidNameRejected ==
  [][(last'.op = "begin" /\ (last'.name = NULL \/ last'.name = "")) =>
       /\ last'.ret = FALSE
       /\ UNCHANGED <<engine, stats, startTime, stackv, radio, ctl, lastEvent>>]_vars

C19_Witness ==
  /\ last.op = "begin" /\ last.case = "name" /\ last.name = "" /\ ~last.ret
  /\ ~initialized /\ sessions = 1 /\ deviceName = "A"
  /\ errorCount > 0 /\ pServer = NULL /\ ~advertising

\* C20: for every advertising power of the 8-bit signed range and every
\* advertising interval of the 16-bit unsigned range, a begin with a valid
\* name and no failing stack call succeeds; the power set in the stack is
\* min(9, max(-12, power)), and the interval set in the stack, in units of
\* 0.625 ms, is floor(min(10240, max(20, interval)) * 16 / 10), a value
\* within [32, 16384] that fits 16 bits.
C20_ClampedAdvertisingParameters ==
  [][(last'.op = "begin" /\ ~initialized /\ ~InvalidName(last'.name)
        /\ last'.case \notin FailPoints \ {"none"}) =>
       /\ last'.ret = TRUE
       /\ txPower' = Min(MaxPowerDbm, Max(MinPowerDbm, cfgPower))
       /\ advUnits' =
            (Min(MaxIntervalMs, Max(MinIntervalMs, cfgInterval)) * 16) \div 10
       /\ advUnits' >= MinIntervalUnits /\ advUnits' <= MaxIntervalUnits
       /\ advUnits' < Uint16]_vars

C20_Witness ==
  /\ last.op = "begin" /\ last.ret /\ initialized
  /\ cfgPower = Int8Max /\ cfgInterval = Uint16 - 1
  /\ txPower = MaxPowerDbm /\ advUnits = MaxIntervalUnits

\* C21 (as claimed): while the engine stays initialized, with no resetStats,
\* begin or end in between, getUptime() after d more milliseconds is at
\* least its earlier value plus d, whatever d is and also across a wrap of
\* the clock; it is unchanged by every other step, and it is 0 whenever the
\* engine is not initialized.
C21_UptimeAdvancesWithClock ==
  [][/\ (last'.op = "tick" /\ initialized) =>
          /\ Carry32(getUptime, last'.by) = 0
          /\ Geq32(getUptime', Add32(getUptime, last'.by))
     /\ (initialized /\ initialized' /\ last'.op \notin {"tick", "resetStats", "begin"}) =>
          getUptime' = getUptime
     /\ ~initialized' => getUptime' = Zero32]_vars

\* C21 (amended): the same, for every span d that keeps the uptime below
\* 2^32 ms: getUptime() then is exactly its earlier value plus d, also
\* across a wrap of the clock.
C21_UptimeAdvancesBelowWordSize ==
  [][/\ (last'.op = "tick" /\ initialized /\ Carry32(getUptime, last'.by) = 0) =>
          getUptime' = Add32(getUptime, last'.by)
     /\ (initialized /\ initialized' /\ last'.op \notin {"tick", "resetStats", "begin"}) =>
          getUptime' = getUptime
     /\ ~initialized' => getUptime' = Zero32]_vars

C21_Witness ==
  /\ last.op = "tick" /\ last.by = One32
  /\ initialized /\ startTime = Max32 /\ now = Zero32
  /\ getUptime = One32

\* ------------------------------------------------- NexState: the store
\* StateValue<T>::setValue
setValue_always(e, newValue) ==
  [e EXCEPT !.previousValue = e.currentValue, !.currentValue = newValue,
            !.changed = TRUE]
setValue(e, newValue) ==
  IF newValue # e.currentValue
    THEN [e EXCEPT !.previousValue = e.currentValue, !.currentValue = newValue,
                   !.changed = TRUE]
    ELSE e

\* StateValue<T>::markAsRead
StateValue_markAsRead_keep(e) == e
StateValue_markAsRead(e) == [e EXCEPT !.changed = FALSE]

\* StateValue<T>::toString: "true"/"false" for bool, std::to_string for int
toString(e) ==
  IF e.kind = "bool"
    THEN (IF e.currentValue = 1 THEN "true" ELSE "false")
    ELSE (IF e.currentValue = 1 THEN "1" ELSE "0")

\* the keys stateValues has an element for
KeysOf(sv) == {k \in StoreKeys : sv[k].kind # "none"}

\* the find / setValue / replace / emplace part of NexState::set<T>
Upsert_coerce(sv, key, kind, value) ==
  [sv EXCEPT ![key] = IF @.kind # "none" THEN setValue(@, value)
                      ELSE StateValue(kind, value)]
Upsert(sv, key, kind, value) ==
  [sv EXCEPT ![key] = IF @.kind = kind THEN setValue(@, value)
                      ELSE StateValue(kind, value)]

\* NexState::hasChanged<T>(key)
hasChangedIn(sv, kind, key) == sv[key].kind = kind /\ sv[key].changed
hasChanged(kind, key) == hasChangedIn(stateValues, kind, key)

\* NexState::getChangedKeys, NexState::hasAnyChanged
getChangedKeys(sv) == {k \in KeysOf(sv) : sv[k].changed}
hasAnyChanged(sv) == \E k \in KeysOf(sv) : sv[k].changed

\* the loop of NexState::markAllAsRead
MarkAll_none(sv) == sv
MarkAll(sv) == [k \in StoreKeys |-> StateValue_markAsRead(sv[k])]

\* NexState::getStateAsJson / getStateAsText: one "key": value element
\* per element of stateValues, in the map's iteration order
getStateAsJson_dirtyOnly(sv) == {<<k, toString(sv[k])>> : k \in getChangedKeys(sv)}
getStateAsJson(sv) == {<<k, toString(sv[k])>> : k \in KeysOf(sv)}
Format == IF config.enableJsonFormat THEN "json" ELSE "text"

\* nothing printed, nothing changed
NoOutput(sv) == [emitted |-> 0, sv |-> sv, rebased |-> FALSE]

\* NexState::outputState on the entries sv: what it prints, the entries it
\* leaves, whether it assigns lastOutputTime
OutputState(sv) ==
  IF ~config.enableSerialOutput THEN NoOutput(sv)
  ELSE [emitted |-> 1, sv |-> MarkAll(sv), rebased |-> TRUE]

\* NexState::checkAndOutput
checkAndOutput_always(sv) == OutputState(sv)
checkAndOutput(sv) ==
  IF config.enableChangeDetection /\ hasAnyChanged(sv) THEN OutputState(sv)
  ELSE NoOutput(sv)

\* the record of a store call: what it was given, what it printed, the
\* dirty keys its output decision saw, the callback calls it made
StoreStep(name, key, kind, value, res, sv) ==
  [Step(name, "main") EXCEPT !.key = key, !.kind = kind, !.value = value,
     !.emitted = res.emitted,
     !.format = IF res.emitted = 1 THEN Format ELSE "none",
     !.snapshot = IF res.emitted = 1 THEN getStateAsJson(sv) ELSE {},
     !.dirty = getChangedKeys(sv)]

\* the values of the entries sv, all of them marked as read just now
ValuesRead(sv) == [k \in StoreKeys |-> sv[k].currentValue]

\* the entries, the timer and the history after a call that ran res, where
\* read is the history of the values read before the output decision
Outcome(res, at, read) ==
  /\ stateValues' = res.sv
  /\ lastOutputTime' = at
  /\ quiet' = IF res.emitted = 1 THEN <<Zero32, FALSE>> ELSE quiet
  /\ readValue' = IF res.rebased THEN ValuesRead(res.sv) ELSE read

\* NexState::set<T>(key, value)
set(key, kind, value) ==
  LET up == Upsert(stateValues, key, kind, value)
      res == IF config.outputOnChange THEN checkAndOutput(up) ELSE NoOutput(up)
      read == IF stateValues[key].kind = kind THEN readValue
              ELSE [readValue EXCEPT ![key] = value]
  IN /\ Outcome(res, IF res.rebased THEN millis ELSE lastOutputTime, read)
     /\ everSet' = everSet \cup {key}
     /\ last' = [StoreStep("set", key, kind, value, res, up) EXCEPT
                    !.was = stateValues[key].kind]
     /\ UNCHANGED <<g_nexState, config, changeCallback, beam, now, ticks, app>>

\* NexState::markAsRead<T>(key)
markAsRead(kind, key) ==
  /\ stateValues' = IF stateValues[key].kind = kind
                      THEN [stateValues EXCEPT ![key] = StateValue_markAsRead(@)]
                      ELSE stateValues
  /\ readValue' = IF stateValues[key].kind = kind
                    THEN [readValue EXCEPT ![key] = stateValues[key].currentValue]
                    ELSE readValue
  /\ last' = StoreStep("markAsRead", key, kind, 0, NoOutput(stateValues), stateValues)
  /\ UNCHANGED <<g_nexState, config, changeCallback, lastOutputTime, everSet, quiet, beam, now, ticks, app>>

\* NexState::markAllAsRead
markAllAsRead ==
  /\ stateValues' = MarkAll(stateValues)
  /\ readValue' = ValuesRead(stateValues)
  /\ last' = StoreStep("markAllAsRead", "", "none", 0, NoOutput(stateValues), stateValues)
  /\ UNCHANGED <<g_nexState, config, changeCallback, lastOutputTime, everSet, quiet, beam, now, ticks, app>>

\* NexState::outputState
outputState ==
  LET res == OutputState(stateValues)
  IN /\ Outcome(res, IF res.rebased THEN millis ELSE lastOutputTime, readValue)
     /\ last' = StoreStep("outputState", "", "none", 0, res, stateValues)
     /\ UNCHANGED <<g_nexState, config, changeCallback, everSet, beam, now, ticks, app>>

\* the test of NexState::update
IntervalElapsed_strict ==
  Lt32(config.outputIntervalMs, Sub32(millis, lastOutputTime))
IntervalElapsed ==
  Geq32(Sub32(millis, lastOutputTime), config.outputIntervalMs)

\* NexState::update
update ==
  LET due == config.outputOnInterval /\ IntervalElapsed
      res == IF due THEN OutputState(stateValues) ELSE NoOutput(stateValues)
  IN /\ Outcome(res, IF due THEN millis ELSE lastOutputTime, readValue)
     /\ last' = StoreStep("update", "", "none", 0, res, stateValues)
     /\ UNCHANGED <<g_nexState, config, changeCallback, everSet, beam, now, ticks, app>>

\* NexState::subscribe
subscribe(callback) ==
  /\ changeCallback' = callback
  /\ last' = [Step("subscribe", "main") EXCEPT !.name = callback]
  /\ UNCHANGED <<g_nexState, config, stateValues, lastOutputTime, everSet, quiet, readValue, beam, now, ticks, app>>

\* NexState::clear
clear ==
  /\ stateValues' = [k \in StoreKeys |-> NoEntry]
  /\ readValue' = [k \in StoreKeys |-> 0]
  /\ last' = StoreStep("clear", "", "none", 0, NoOutput(stateValues), stateValues)
  /\ UNCHANGED <<g_nexState, config, changeCallback, lastOutputTime, everSet, quiet, beam, now, ticks, app>>

\* what none of the const member functions of the store assigns
StoreUntouched_marks ==
  /\ stateValues' = MarkAll(stateValues)
  /\ UNCHANGED <<g_nexState, config, changeCallback, lastOutputTime, everSet, quiet,
                 readValue, beam, now, ticks, app>>
StoreUntouched ==
  UNCHANGED <<store, quiet, readValue, beam, now, ticks, app>>

\* NexState::get<T>(key, defaultValue)
getIn_any(sv, kind, key, defaultValue) ==
  IF sv[key].kind # "none" THEN sv[key].currentValue ELSE defaultValue
getIn(sv, kind, key, defaultValue) ==
  IF sv[key].kind = kind THEN sv[key].currentValue ELSE defaultValue

get(kind, key, defaultValue) ==
  /\ last' = [Step("get", "main") EXCEPT !.key = key, !.kind = kind,
                 !.value = defaultValue,
                 !.got = getIn(stateValues, kind, key, defaultValue)]
  /\ StoreUntouched

\* a call of NexState::hasChanged<T>(key)
hasChanged_call(kind, key) ==
  /\ last' = [Step("hasChanged", "main") EXCEPT !.key = key, !.kind = kind,
                 !.ret = hasChanged(kind, key)]
  /\ StoreUntouched

\* a call of NexState::getChangedKeys
getChangedKeys_call ==
  /\ last' = [Step("getChangedKeys", "main") EXCEPT
                 !.keys = getChangedKeys(stateValues)]
  /\ StoreUntouched

\* a call of NexState::hasAnyChanged
hasAnyChanged_call ==
  /\ last' = [Step("hasAnyChanged", "main") EXCEPT
                 !.ret = hasAnyChanged(stateValues)]
  /\ StoreUntouched

\* --------------------------------------------- NexState: the global store
\* if (g_nexState)
HasStore_never == FALSE
HasStore == g_nexState # NULL

\* g_nexState = std::make_unique<NexState>(cfg)
MakeStore(cfg) ==
  /\ g_nexState' = STORE
  /\ config' = cfg
  /\ stateValues' = [k \in StoreKeys |-> NoEntry]
  /\ changeCallback' = NULL
  /\ lastOutputTime' = millis
  /\ everSet' = {}
  /\ quiet' = <<Zero32, FALSE>>
  /\ readValue' = [k \in StoreKeys |-> 0]

\* nexstate::initialize(config)
initialize(cfg) ==
  /\ IF HasStore
     THEN /\ last' = [Step("initialize", "main") EXCEPT !.ret = FALSE]
          /\ UNCHANGED <<store, quiet, readValue, app>>
     ELSE /\ MakeStore(cfg)
          /\ last' = [Step("initialize", "main") EXCEPT !.ret = TRUE,
                         !.was = last.op, !.from = last.case]
  /\ UNCHANGED <<beam, now, ticks, app>>

\* nexstate::State()
State ==
  /\ IF ~HasStore
     THEN /\ MakeStore(NexStateConfig)
          /\ last' = [Step("State", "main") EXCEPT !.case = "created"]
     ELSE /\ last' = [Step("State", "main") EXCEPT !.case = "found"]
          /\ UNCHANGED <<store, quiet, readValue, app>>
  /\ UNCHANGED <<beam, now, ticks, app>>

\* nexstate::update()
nexstate_update ==
  IF HasStore THEN update
  ELSE /\ last' = [Step("update", "main") EXCEPT !.case = "nostore"]
       /\ StoreUntouched

\* no global store: g_nexState is null and there is no NexState object
NoStoreAfter ==
  /\ g_nexState' = NULL
  /\ config' = NexStateConfig
  /\ stateValues' = [k \in StoreKeys |-> NoEntry]
  /\ changeCallback' = NULL
  /\ lastOutputTime' = Zero32
  /\ everSet' = {}
  /\ quiet' = <<Zero32, FALSE>>
  /\ readValue' = [k \in StoreKeys |-> 0]

\* nexstate::shutdown()
shutdown ==
  /\ NoStoreAfter
  /\ last' = [Step("shutdown", "main") EXCEPT
                 !.case = IF HasStore THEN "destroyed" ELSE "none"]
  /\ UNCHANGED <<beam, now, ticks, app>>

\* ------------------------------------------------------------ BeamUtils
\* uptimeMs / 1000 on an unsigned long: the quotient fits one integer
Div1000(a) ==
  (a[1] \div 1000) * Uint16 + (((a[1] % 1000) * Uint16 + a[2]) \div 1000)

\* BeamUtils::formatUptime
formatUptime_nonZeroOnly(uptimeMs) ==
  LET seconds == Div1000(uptimeMs)
      minutes == seconds \div 60
      hours == minutes \div 60
      days == hours \div 24
  IN (IF days > 0 THEN ToString(days) \o "d " ELSE "")
     \o (IF hours % 24 > 0 THEN ToString(hours % 24) \o "h " ELSE "")
     \o (IF minutes % 60 > 0 THEN ToString(minutes % 60) \o "m " ELSE "")
     \o ToString(seconds % 60) \o "s"
formatUptime(uptimeMs) ==
  LET seconds == Div1000(uptimeMs)
      minutes == seconds \div 60
      hours == minutes \div 60
      days == hours \div 24
  IN (IF days > 0 THEN ToString(days) \o "d " ELSE "")
     \o (IF hours % 24 > 0 \/ days > 0 THEN ToString(hours % 24) \o "h " ELSE "")
     \o (IF minutes % 60 > 0 \/ hours % 24 > 0 \/ days > 0
           THEN ToString(minutes % 60) \o "m " ELSE "")
     \o ToString(seconds % 60) \o "s"

\* a call formatUptime(millis()): the uptime since boot, rendered
formatUptime_call ==
  /\ last' = [Step("formatUptime", "main") EXCEPT !.by = millis,
                 !.str = formatUptime(millis)]
  /\ StoreUntouched

\* ------------------------------------------- specification: the store
\* the store built with any setting of the four output switches
Switches ==
  {[NexStateConfig EXCEPT !.enableSerialOutput = s, !.enableChangeDetection = d,
                          !.outputOnChange = c, !.outputOnInterval = i] :
     s \in BOOLEAN, d \in BOOLEAN, c \in BOOLEAN, i \in BOOLEAN}

InitStore ==
  /\ EngineAt(Zero32, DefaultPowerDbm, DefaultIntervalMs)
  /\ AppMounted(BLE_MANAGER)
  /\ \E cfg \in Switches : NexState(cfg)

NextStore ==
  \/ \E k \in StoreKeys, t \in Kinds, v \in KindValues : set(k, t, v)
  \/ \E k \in StoreKeys, t \in Kinds : markAsRead(t, k)
  \/ markAllAsRead
  \/ outputState
  \/ update
  \/ clear
  \/ \E k \in StoreKeys, t \in Kinds, v \in KindValues : get(t, k, v)
  \/ \E k \in StoreKeys, t \in Kinds : hasChanged_call(t, k)
  \/ getChangedKeys_call
  \/ hasAnyChanged_call

SpecStore == InitStore /\ [][NextStore]_vars

\* --------------------------------- specification: the store and the clock
\* intervals of 1 ms, of 2 ms and of 2^32 - 1 ms
TimedConfigs ==
  {[NexStateConfig EXCEPT !.enableSerialOutput = s, !.enableJsonFormat = j,
                          !.outputOnChange = c,
                          !.outputOnInterval = i, !.outputIntervalMs = ms] :
     s \in BOOLEAN, j \in BOOLEAN, c \in BOOLEAN, i \in BOOLEAN,
     ms \in {One32, <<0, 2>>, Max32}}
TimedKey == "ledOn"

InitStoreTime ==
  /\ \E clock \in {Zero32, Max32} : EngineAt(clock, DefaultPowerDbm, DefaultIntervalMs)
  /\ AppMounted(BLE_MANAGER)
  /\ \E cfg \in TimedConfigs : NexState(cfg)

NextStoreTime ==
  \/ \E d \in TickSizes : tick(d)
  \/ \E v \in KindValues : set(TimedKey, "bool", v)
  \/ markAsRead("bool", TimedKey)
  \/ outputState
  \/ update
  \/ \E cb \in Callbacks : subscribe(cb)

SpecStoreTime == InitStoreTime /\ [][NextStoreTime]_vars


\* ------------------------------------------------------------------ C22
\* the set call just made gave the key a value it did not hold: the key
\* was absent, held a value of another type, or held another value
SetChangedValue ==
  /\ last'.op = "set"
  /\ \/ stateValues[last'.key].kind # last'.kind
     \/ stateValues[last'.key].currentValue # last'.value

\* C22: for any store configuration and any key, hasChanged(key) is true
\* right after a set call that changes the key's value, the first set that
\* creates the key included, and it stays true until markAsRead(key),
\* markAllAsRead or outputState is called.
C22_DirtyAfterChangingSet ==
  [][/\ SetChangedValue => hasChangedIn(stateValues', last'.kind, last'.key)
     /\ \A k \in StoreKeys, t \in Kinds :
          (/\ hasChanged(t, k)
           /\ ~(last'.op = "markAsRead" /\ last'.key = k)
           /\ last'.op \notin {"markAllAsRead", "outputState"})
          => hasChanged(t, k)']_vars

\* ------------------------------------------------------------------ C23
\* the set call just made replaced the entry of key k by one of another type
ReplacedBySet(k) ==
  /\ last'.key = k
  /\ stateValues[k].kind # "none"
  /\ stateValues[k].kind # last'.kind

\* C23 as stated: with on-change output enabled every set call emits exactly
\* one snapshot if and only if some entry is dirty once the upsert is done,
\* and no entry is dirty when set returns; with on-change output disabled
\* set never emits a snapshot and never clears a dirty flag.
C23_SetOutputsOnChange ==
  [][last'.op = "set" =>
       /\ config.outputOnChange =>
            /\ (last'.emitted = 1) <=> (last'.dirty # {})
            /\ last'.emitted \in {0, 1}
            /\ getChangedKeys(stateValues') = {}
       /\ ~config.outputOnChange =>
            /\ last'.emitted = 0
            /\ \A k \in StoreKeys : stateValues[k].changed => stateValues'[k].changed]_vars

\* on-change output, change detection and serial output are all enabled
OnChangeActive ==
  config.outputOnChange /\ config.enableChangeDetection /\ config.enableSerialOutput

\* C23, amended: with on-change output, change detection and serial output
\* all enabled every set call emits exactly one snapshot if and only if some
\* entry is dirty once the upsert is done, and no entry is dirty when set
\* returns; with any of the three disabled set never emits a snapshot and
\* never clears the dirty flag of an entry it does not replace.
C23_SetOutputsWhenActive ==
  [][last'.op = "set" =>
       /\ OnChangeActive =>
            /\ (last'.emitted = 1) <=> (last'.dirty # {})
            /\ last'.emitted \in {0, 1}
            /\ getChangedKeys(stateValues') = {}
       /\ ~OnChangeActive =>
            /\ last'.emitted = 0
            /\ \A k \in StoreKeys :
                 (stateValues[k].changed /\ ~ReplacedBySet(k)) => stateValues'[k].changed]_vars

\* a set under active on-change output has found a dirty entry after its
\* upsert, emitted one snapshot and left nothing dirty
C23_Witness ==
  /\ last.op = "set"
  /\ OnChangeActive
  /\ last.dirty = {last.key}
  /\ last.emitted = 1
  /\ <<last.key, toString(stateValues[last.key])>> \in last.snapshot
  /\ getChangedKeys(stateValues) = {}

\* ------------------------------------------------------------------ C24
\* C24: on every output pass in which N keys are dirty the subscribed
\* callback is invoked exactly N times, once per dirty key with the key and
\* its stringified current value; a callback that subscribe has replaced is
\* never invoked again.
C24_CallbackPerDirtyKey ==
  [][/\ (last'.emitted = 1 /\ changeCallback # NULL) =>
          /\ Len(last'.calls) = Cardinality(last'.dirty)
          /\ \A k \in last'.dirty :
               \E i \in 1..Len(last'.calls) :
                 last'.calls[i] = <<changeCallback, k, toString(stateValues[k])>>
     /\ \A i \in 1..Len(last'.calls) : last'.calls[i][1] = changeCallback]_vars

\* ------------------------------------------------------------------ C25
\* C25 as stated: every call of outputState, in any configuration and
\* whether or not anything is dirty, emits exactly one snapshot, after which
\* no entry is dirty and the interval timer is restarted from the current
\* instant.
C25_OutputStateAlwaysEmits ==
  [][last'.op = "outputState" =>
       /\ last'.emitted = 1
       /\ getChangedKeys(stateValues') = {}
       /\ lastOutputTime' = millis']_vars

\* C25, amended: every call of outputState with serial output enabled,
\* whether or not anything is dirty, emits exactly one snapshot of all the
\* entries, after which no entry is dirty and the interval timer is
\* restarted from the current instant; with serial output disabled it emits
\* nothing and changes neither an entry nor the timer.
C25_OutputStateEmitsWhenSerial ==
  [][last'.op = "outputState" =>
       /\ config.enableSerialOutput =>
            /\ last'.emitted = 1
            /\ last'.snapshot = getStateAsJson(stateValues)
            /\ getChangedKeys(stateValues') = {}
            /\ lastOutputTime' = millis'
       /\ ~config.enableSerialOutput =>
            /\ last'.emitted = 0
            /\ UNCHANGED <<stateValues, lastOutputTime>>]_vars

\* outputState has run with a dirty entry after the clock advanced, and has
\* printed, cleared the flag and rebased the timer
C25_Witness ==
  /\ last.op = "outputState"
  /\ config.enableSerialOutput
  /\ last.dirty # {}
  /\ last.emitted = 1
  /\ getChangedKeys(stateValues) = {}
  /\ ticks > 0
  /\ lastOutputTime = now

\* ------------------------------------------------------------------ C26
\* C26 as stated: in every reachable state and for every entry, the dirty
\* flag is true if and only if the entry's current value differs from the
\* value it had at its last markAsRead.
C26_DirtyIffDiffersFromRead ==
  \A k \in KeysOf(stateValues) :
    stateValues[k].changed <=> (stateValues[k].currentValue # readValue[k])

\* C26, amended: in every reachable state and for every entry, a dirty flag
\* that is false means the current value is the one the entry had at its
\* last markAsRead (or at its creation), and a dirty flag that is true means
\* the current value differs from the entry's previous value, the one it
\* held before its last change.
C26_DirtyFlagBounds ==
  \A k \in KeysOf(stateValues) :
    /\ ~stateValues[k].changed => stateValues[k].currentValue = readValue[k]
    /\ stateValues[k].changed => stateValues[k].currentValue # stateValues[k].previousValue

\* an entry is dirty although it holds again the value it had when it was
\* last marked as read
C26_Witness ==
  \E k \in KeysOf(stateValues) :
    /\ stateValues[k].changed
    /\ stateValues[k].currentValue = readValue[k]
    /\ stateValues[k].currentValue # stateValues[k].previousValue
    /\ last.op = "set" /\ last.key = k

\* ------------------------------------------------------------------ C27
\* the set call just made gave the key the value of its own type that it
\* already held
SetSameValue ==
  /\ last'.op = "set"
  /\ stateValues[last'.key].kind = last'.kind
  /\ stateValues[last'.key].currentValue = last'.value

\* C27: a set(key, v) whose value equals the key's current value of the same
\* type is a no-op on the entry: current value, previous value and dirty
\* flag are as before, so a redundant second set neither sets nor clears
\* the dirty flag of the key.
C27_RedundantSetKeepsEntry ==
  [][SetSameValue => stateValues'[last'.key] = stateValues[last'.key]]_vars

\* a redundant set has left a dirty entry dirty, with on-change output on
C27_Witness ==
  /\ last.op = "set"
  /\ config.outputOnChange
  /\ stateValues[last.key].kind = last.kind
  /\ stateValues[last.key].currentValue = last.value
  /\ stateValues[last.key].previousValue # last.value
  /\ stateValues[last.key].changed
  /\ last.dirty = {last.key}

\* ------------------------------------------------------------------ C28
\* C28: markAsRead(key) makes hasChanged(key) false, emits no snapshot and
\* leaves every value of the store and the dirty flag of every other key
\* unchanged; markAllAsRead makes the dirty flag of every key false, emits
\* no snapshot and changes no value.  (markAsRead and hasChanged are taken
\* at the type of the key's entry.)
C28_MarkAsReadEffect ==
  [][/\ last'.op = "markAsRead" =>
          /\ ~hasChangedIn(stateValues', last'.kind, last'.key)
          /\ last'.emitted = 0
          /\ \A k \in StoreKeys :
               /\ stateValues'[k].kind = stateValues[k].kind
               /\ stateValues'[k].currentValue = stateValues[k].currentValue
               /\ stateValues'[k].previousValue = stateValues[k].previousValue
               /\ k # last'.key => stateValues'[k].changed = stateValues[k].changed
          /\ UNCHANGED <<lastOutputTime, quiet>>
     /\ last'.op = "markAllAsRead" =>
          /\ getChangedKeys(stateValues') = {}
          /\ last'.emitted = 0
          /\ \A k \in StoreKeys :
               /\ stateValues'[k].kind = stateValues[k].kind
               /\ stateValues'[k].currentValue = stateValues[k].currentValue
               /\ stateValues'[k].previousValue = stateValues[k].previousValue
          /\ UNCHANGED <<lastOutputTime, quiet>>]_vars

\* markAsRead has cleared the flag of a dirty key and left another key dirty
C28_Witness ==
  /\ last.op = "markAsRead"
  /\ last.dirty = StoreKeys
  /\ stateValues[last.key].kind = last.kind
  /\ getChangedKeys(stateValues) = StoreKeys \ {last.key}

\* ------------------------------------------------------------------ C29
\* the keys that have an element in the snapshot, and the number of
\* elements of the snapshot
SnapshotKeys == {e[1] : e \in getStateAsJson(stateValues)}
SnapshotSize == Cardinality(getStateAsJson(stateValues))

\* C29 as stated: after any sequence of set, markAsRead, markAllAsRead,
\* outputState, update and clear calls the snapshot of getStateAsJson has
\* exactly one element for every key that was ever set on the store,
\* dirty or not.
C29_SnapshotHasEveryKeyEverSet ==
  /\ SnapshotKeys = everSet
  /\ SnapshotSize = Cardinality(everSet)

\* C29, amended: after any sequence of those calls the snapshot has exactly
\* one element for every key set since the store was built or last cleared,
\* dirty or not, and no other element.
C29_SnapshotHasEveryKeySetSinceClear ==
  [][/\ SnapshotSize' = Cardinality(SnapshotKeys')
     /\ SnapshotKeys' \subseteq everSet'
     /\ last'.op = "clear" => SnapshotKeys' = {}
     /\ last'.op = "set" => SnapshotKeys' = SnapshotKeys \cup {last'.key}
     /\ last'.op \notin {"clear", "set"} => SnapshotKeys' = SnapshotKeys]_vars

\* a key set before a clear is missing from the snapshot, a key set after
\* it is there, clean
C29_Witness ==
  /\ everSet = StoreKeys
  /\ Cardinality(SnapshotKeys) = 1
  /\ last.op = "set"
  /\ SnapshotKeys = {last.key}
  /\ getChangedKeys(stateValues) = {}

\* ------------------------------------------------------------------ C30
\* at least the configured interval has passed since the store last
\* emitted a snapshot or, before its first, since it was built
IntervalPassed == quiet[2] \/ Geq32(quiet[1], config.outputIntervalMs)

\* C30 as stated: update emits a snapshot if and only if interval output is
\* enabled and at least the interval has elapsed since the last output; it
\* never emits with interval output disabled; two snapshots of update are
\* never less than the interval apart; an output through another path
\* restarts the interval.
C30_UpdateEmitsOnInterval ==
  [][/\ last'.op = "update" =>
          ((last'.emitted = 1) <=> (config.outputOnInterval /\ IntervalPassed))
     /\ last'.emitted = 1 => lastOutputTime' = millis']_vars

\* C30, amended: update emits a snapshot if and only if interval output and
\* serial output are enabled and the time elapsed since the last output (or
\* since the store was built), taken modulo 2^32 ms as the unsigned clock
\* gives it, is at least the interval; it never emits with interval output
\* disabled; whenever it emits at least the interval has truly elapsed
\* since the last output, so two snapshots of update are never less than
\* the interval apart; an output through any path restarts the interval.
C30_UpdateEmitsOnIntervalModulo ==
  [][/\ last'.op = "update" =>
          /\ (last'.emitted = 1) <=>
               (/\ config.outputOnInterval
                /\ config.enableSerialOutput
                /\ Geq32(quiet[1], config.outputIntervalMs))
          /\ last'.emitted = 1 => IntervalPassed
          /\ ~config.outputOnInterval => last'.emitted = 0
     /\ last'.emitted = 1 => (lastOutputTime' = millis' /\ quiet' = <<Zero32, FALSE>>)]_vars

\* update has emitted exactly when the interval of 2 ms was over, across a
\* wrap of the clock
C30_Witness ==
  /\ last.op = "update"
  /\ last.emitted = 1
  /\ config.outputIntervalMs = <<0, 2>>
  /\ ticks = 2
  /\ now = One32
  /\ lastOutputTime = now

\* ------------------------------------------------------------------ C31
\* C31: get(key, default) returns the current value of the key when the key
\* exists and holds the requested type, and the default when the key is
\* absent or holds another type; get changes no value, no dirty flag and
\* not the set of keys.
C31_GetReturnsValueOrDefault ==
  [][last'.op = "get" =>
       /\ (stateValues[last'.key].kind = last'.kind) =>
            last'.got = stateValues[last'.key].currentValue
       /\ (stateValues[last'.key].kind # last'.kind) => last'.got = last'.value
       /\ stateValues' = stateValues
       /\ KeysOf(stateValues') = KeysOf(stateValues)]_vars

\* get with another type than the entry's has returned a default that is
\* not the value of the entry, and the entry is still dirty
C31_Witness ==
  /\ last.op = "get"
  /\ stateValues[last.key].kind \notin {"none", last.kind}
  /\ last.got = last.value
  /\ last.got # stateValues[last.key].currentValue
  /\ stateValues[last.key].changed

\* ------------------------------------------------------------------ C32
\* C32: a set of an existing key with a value of another type replaces the
\* entry: afterwards the store holds one entry for the key, of the new type
\* and with the new value, the number of keys is as before, and get with
\* the old type returns the default of the caller.
C32_SetReplacesOtherType ==
  [][(/\ last'.op = "set"
      /\ stateValues[last'.key].kind \notin {"none", last'.kind}) =>
       /\ stateValues'[last'.key].kind = last'.kind
       /\ stateValues'[last'.key].currentValue = last'.value
       /\ Cardinality({e \in getStateAsJson(stateValues') : e[1] = last'.key}) = 1
       /\ Cardinality(KeysOf(stateValues')) = Cardinality(KeysOf(stateValues))
       /\ KeysOf(stateValues') = KeysOf(stateValues)
       /\ \A d \in KindValues :
            getIn(stateValues', stateValues[last'.key].kind, last'.key, d) = d
       /\ \A k \in StoreKeys \ {last'.key} :
            /\ stateValues'[k].kind = stateValues[k].kind
            /\ stateValues'[k].currentValue = stateValues[k].currentValue]_vars

\* a set has replaced a bool entry by an int entry while the other key is
\* in the store
C32_Witness ==
  /\ last.op = "set"
  /\ last.was = "bool"
  /\ last.kind = "int"
  /\ stateValues[last.key].kind = "int"
  /\ stateValues[last.key].currentValue = last.value
  /\ KeysOf(stateValues) = StoreKeys

\* ------------------------------------------------------------------ C33
\* the three change queries of the store
ChangeQueries == {"hasChanged", "getChangedKeys", "hasAnyChanged"}

UptimeInputs ==
  {<<h, l>> : h \in {0, 1, 2, 54, 55, 1318, 1319, 2636, 65535},
              l \in {0, 1, 999, 1000, 1001, 23551, 23552, 24464, 59999, 60000,
                     61055, 61056, 65535}}

InitFormat ==
  \E ms \in UptimeInputs : BootAt(ms, DefaultPowerDbm, DefaultIntervalMs)

NextFormat == formatUptime_call

SpecFormat == InitFormat /\ [][NextFormat]_vars

\* ------------------------------------------------------------------ C34
\* the rendering the claim describes, of d days, h hours, m minutes and s
\* seconds: the leading units that are zero are left out, every unit below
\* the first non-zero one is printed, seconds always
Rendered(d, h, m, s) ==
  LET ss == ToString(s) \o "s"
      ms == ToString(m) \o "m " \o ss
      hs == ToString(h) \o "h " \o ms
  IN IF d # 0 THEN ToString(d) \o "d " \o hs
     ELSE IF h # 0 THEN hs
     ELSE IF m # 0 THEN ms
     ELSE ss

\* C34: for every uptime in milliseconds formatUptime renders the whole
\* seconds as days, hours, minutes and seconds, with hours in 0..23, minutes
\* and seconds in 0..59 and days*86400 + hours*3600 + minutes*60 + seconds
\* equal to floor(ms/1000); it leaves out exactly the leading units that are
\* zero, prints every unit below the first non-zero one and always prints
\* the seconds; 90000 ms gives "1m 30s" and 0 ms gives "0s".
C34_FormatUptime ==
  [][last'.op = "formatUptime" =>
       /\ \E d \in 0..49, h \in 0..23, m \in 0..59 :
            LET s == Div1000(last'.by) - (d * 86400 + h * 3600 + m * 60)
            IN /\ s \in 0..59
               /\ last'.str = Rendered(d, h, m, s)
       /\ last'.by = <<1, 24464>> => last'.str = "1m 30s"
       /\ last'.by = Zero32 => last'.str = "0s"]_vars

\* an uptime of more than a day with no whole hour has been rendered with
\* its zero hours
C34_Witness ==
  /\ last.op = "formatUptime"
  /\ last.by = <<1318, 24464>>
  /\ last.str = "1d 0h 0m 0s"

\* ------------------------------------------------------------------ C35
\* end() has returned, or the engine was never begun: the engine is not
\* initialized and the application context is not inside end
EndReturned == ~initialized /\ pc["main"] # "end_stop"

\* C35: a connect or disconnect callback that the stack delivers after
\* end() has returned does not change the observable state of the engine:
\* isConnected() stays false and advertising stays stopped until the next
\* successful begin, so isConnected() is true only when the engine is
\* initialized.
C35_ConnectedOnlyWhileInitialized ==
  [][/\ (EndReturned /\ last'.op \in {"onConnect", "onDisconnect"}) =>
          (~deviceConnected' /\ ~advertising')
     /\ (EndReturned /\ ~initialized') => (~deviceConnected' /\ ~advertising')
     /\ deviceConnected' => initialized']_vars

\* ------------------------------------------------------------------ C36
\* C36 as stated: end() changes neither the three counters nor the
\* registered handler; received, sent and errors keep their values after
\* end() until the next successful begin or resetStats; a handler registered
\* before end(), or before the first begin, is the one called for the frames
\* received after a later begin.
C36_EndKeepsStatsAndHandler ==
  [][/\ last'.op \in {"end_flags", "end"} => UNCHANGED <<stats, messageHandler>>
     /\ (EndReturned /\ ~initialized' /\ last'.op # "resetStats") => UNCHANGED stats
     /\ last'.op # "onMessage" => UNCHANGED messageHandler
     /\ (last'.op = "handler" /\ last'.case = "handled") =>
          last'.called = messageHandler]_vars

\* C36, amended: end() changes neither the three counters nor the
\* registered handler; after end(), until the next successful begin or
\* resetStats, received, sent and errors are changed by nothing but notify
\* calls (one entered on the ended engine counts an error, one that was
\* under way when end() ran counts as it completes); a handler registered
\* before end(), or before the first begin, is the one called for the
\* frames received after a later begin.
C36_EndKeepsStatsAndHandlerButNotify ==
  [][/\ last'.op \in {"end_flags", "end"} => UNCHANGED <<stats, messageHandler>>
     /\ (EndReturned /\ ~initialized' /\ last'.op \notin {"resetStats", "notify"}) =>
          UNCHANGED stats
     /\ last'.op # "onMessage" => UNCHANGED messageHandler
     /\ (last'.op = "handler" /\ last'.case = "handled") =>
          last'.called = messageHandler]_vars

\* end() has returned on an engine that had received a frame, sent a reply
\* and holds a handler: all three are as they were
C36_Witness ==
  /\ last.op = "end" /\ last.case = "ended"
  /\ ~initialized
  /\ messagesReceived = 1 /\ messagesSent = 1
  /\ messageHandler = "echo"

\* ------------------------------------- specification: the global store
\* the program before setup() has run: no global store
InitGlobal ==
  /\ EngineAt(Zero32, DefaultPowerDbm, DefaultIntervalMs)
  /\ AppMounted(BLE_MANAGER)
  /\ g_nexState = NULL
  /\ config = NexStateConfig
  /\ stateValues = [k \in StoreKeys |-> NoEntry]
  /\ changeCallback = NULL
  /\ lastOutputTime = Zero32
  /\ everSet = {}
  /\ quiet = <<Zero32, FALSE>>
  /\ readValue = [k \in StoreKeys |-> 0]

\* the store is used through the reference State() returns
NextGlobal ==
  \/ \E cfg \in Switches : initialize(cfg)
  \/ State
  \/ nexstate_update
  \/ shutdown
  \/ \E k \in StoreKeys, v \in KindValues : HasStore /\ set(k, "bool", v)
  \/ \E cb \in Callbacks : HasStore /\ subscribe(cb)

SpecGlobal == InitGlobal /\ [][NextGlobal]_vars

\* ------------------------------------------------------------------ C37
\* C37: at most one global store exists at a time and initialization is
\* first-wins: initialize(config) returns true only when no store exists;
\* when one exists it returns false and leaves the configuration and the
\* entries of that store unchanged; State() creates a store with the
\* default configuration only when none exists; after shutdown() a new
\* initialize succeeds and the new store is empty.
C37_GlobalStoreFirstWins ==
  [][/\ last'.op = "initialize" =>
          /\ last'.ret <=> (g_nexState = NULL)
          /\ g_nexState' = STORE
          /\ g_nexState # NULL => UNCHANGED <<config, stateValues, changeCallback>>
          /\ g_nexState = NULL =>
               (KeysOf(stateValues') = {} /\ config' \in Switches /\ changeCallback' = NULL)
     /\ last'.op = "State" =>
          /\ g_nexState' = STORE
          /\ g_nexState # NULL =>
               (last'.case = "found" /\ UNCHANGED <<config, stateValues, changeCallback>>)
          /\ g_nexState = NULL =>
               (last'.case = "created" /\ config' = NexStateConfig /\ KeysOf(stateValues') = {})
     /\ last'.op = "shutdown" => g_nexState' = NULL
     /\ (g_nexState = NULL /\ g_nexState' # NULL) => last'.op \in {"initialize", "State"}
     /\ (g_nexState # NULL /\ last'.op # "shutdown") => config' = config]_vars

\* an initialize that follows the shutdown of a store has succeeded with a
\* configuration of its own and the new store is empty
C37_Witness ==
  /\ last.op = "initialize" /\ last.ret
  /\ last.was = "shutdown" /\ last.from = "destroyed"
  /\ g_nexState = STORE
  /\ ~config.outputOnChange
  /\ KeysOf(stateValues) = {}
  /\ sessions = 0

\* ------------------------------------------------ the app: scanning hook
\* device.rssi is null
NoRssi == 1
ScanResult(id, rssi) == [id |-> id, rssi |-> rssi]
\* what a scan can report of the devices ids: a strong or a weak signal,
\* and for device 2, which advertises without a signal strength at times,
\* none
ScanResults(ids) ==
  {ScanResult(i, r) : i \in ids, r \in {-40, -70}}
    \cup {ScanResult(i, NoRssi) : i \in ids \cap {2}}

\* the comparator of sortDevicesByRSSI: positive when a goes after b
compareRSSI(a, b) ==
  IF a.rssi = NoRssi THEN 1
  ELSE IF b.rssi = NoRssi THEN -1
  ELSE b.rssi - a.rssi

\* Array.prototype.sort is stable: an element goes behind everything that
\* does not compare after it
RECURSIVE SortInsert(_, _)
SortInsert(sorted, d) ==
  IF sorted = <<>> THEN <<d>>
  ELSE IF compareRSSI(sorted[Len(sorted)], d) > 0
       THEN Append(SortInsert(SubSeq(sorted, 1, Len(sorted) - 1), d),
                   sorted[Len(sorted)])
       ELSE Append(sorted, d)

RECURSIVE sortDevicesByRSSI(_)
sortDevicesByRSSI(deviceList) ==
  IF deviceList = <<>> THEN <<>>
  ELSE SortInsert(sortDevicesByRSSI(SubSeq(deviceList, 1, Len(deviceList) - 1)),
                  deviceList[Len(deviceList)])

\* prev.findIndex(d => d.id === id): the first index, 0 for none (-1)
findIndex(prev, id) ==
  IF \E i \in 1..Len(prev) : prev[i].id = id
  THEN CHOOSE i \in 1..Len(prev) :
         /\ prev[i].id = id
         /\ \A j \in 1..(i - 1) : prev[j].id # id
  ELSE 0

addDevice_uncapped(prev, deviceInfo, isFrozen) ==
  LET existingIndex == findIndex(prev, deviceInfo.id) IN
  IF existingIndex > 0 THEN [prev EXCEPT ![existingIndex] = deviceInfo]
  ELSE IF isFrozen THEN prev
  ELSE sortDevicesByRSSI(Append(prev, deviceInfo))

\* the updater the scan listener gives to setDevices; isFrozen is the
\* isListFrozen of the render the listener was created in
addDevice(prev, deviceInfo, isFrozen) ==
  LET existingIndex == findIndex(prev, deviceInfo.id) IN
  IF existingIndex > 0 THEN [prev EXCEPT ![existingIndex] = deviceInfo]
  ELSE IF isFrozen THEN prev
  ELSE IF Len(prev) >= MAX_DEVICES THEN prev
  ELSE sortDevicesByRSSI(Append(prev, deviceInfo))

\* clearTimeout(id) on the pending timers
clearTimeout(pending, id) == {t \in pending : t.id # id}

\* startScan up to its await: the checks, then requestPermissions is
\* called. The closure is the one of the current render.
startScan ==
  /\ scans < MaxScans
  /\ IF managerRef = NULL \/ scanState = "scanning"
     THEN /\ last' = [Step("startScan", "app") EXCEPT !.ret = FALSE,
                        !.case = scanState]
          /\ UNCHANGED <<starts, scans>>
     ELSE /\ starts' = starts \cup {[id |-> scans + 1, seen |-> scanState,
                                     frozen |-> isListFrozen]}
          /\ scans' = scans + 1
          /\ last' = [Step("startScan", "app") EXCEPT !.case = "await",
                        !.call = scans + 1]
  /\ UNCHANGED <<scanState, devices, isListFrozen, scanTimeoutRef, timers,
                 deviceScan>>
  /\ UNCHANGED <<managerRef, connecting, store, quiet, readValue, beam, now, ticks>>

\* the rest of a startScan call once requestPermissions has settled;
\* throws: startDeviceScan throws
startScan_resume(call, permission, throws) ==
  /\ call \in starts
  /\ starts' = starts \ {call}
  /\ CASE permission = "denied" ->
            /\ scanState' = "permission_denied"
            /\ last' = [Step("startScan_resume", "app") EXCEPT !.ret = FALSE,
                          !.case = permission, !.call = call.id]
            /\ UNCHANGED <<devices, isListFrozen, scanTimeoutRef, timers, deviceScan>>
       [] permission = "failed" ->
            /\ last' = [Step("startScan_resume", "app") EXCEPT !.ret = FALSE,
                          !.case = permission, !.call = call.id]
            /\ UNCHANGED <<scanState, devices, isListFrozen, scanTimeoutRef,
                           timers, deviceScan>>
       [] permission = "granted" ->
            /\ devices' = <<>>
            /\ isListFrozen' = FALSE
            /\ IF throws
               THEN /\ scanState' = "error"
                    /\ last' = [Step("startScan_resume", "app") EXCEPT
                                  !.ret = FALSE, !.case = "threw", !.call = call.id]
                    /\ UNCHANGED <<scanTimeoutRef, timers, deviceScan>>
               ELSE /\ scanState' = "scanning"
                    /\ deviceScan' = [on |-> TRUE, frozen |-> call.frozen]
                    /\ timers' = timers \cup {[id |-> call.id, seen |-> call.seen]}
                    /\ scanTimeoutRef' = call.id
                    /\ last' = [Step("startScan_resume", "app") EXCEPT
                                  !.ret = TRUE, !.case = permission, !.call = call.id]
  /\ UNCHANGED scans
  /\ UNCHANGED <<managerRef, connecting, store, quiet, readValue, beam, now, ticks>>

\* stopScan as created in a render whose scanState was seen, with the
\* timers pending
stopScanOf(seen, pending) ==
  /\ deviceScan' = IF managerRef # NULL /\ seen = "scanning" THEN NoScan
                   ELSE deviceScan
  /\ timers' = IF scanTimeoutRef # NoTimer THEN clearTimeout(pending, scanTimeoutRef)
               ELSE pending
  /\ scanTimeoutRef' = NoTimer
  /\ scanState' = "idle"

\* the user stops the scan: stopScan of the current render
stopScan ==
  /\ stopScanOf(scanState, timers)
  /\ last' = [Step("stopScan", "app") EXCEPT !.case = scanState]
  /\ UNCHANGED <<devices, isListFrozen, starts, scans>>
  /\ UNCHANGED <<managerRef, connecting, store, quiet, readValue, beam, now, ticks>>

\* SCAN_TIMEOUT after a startScan: its timer fires and calls the stopScan
\* of the render that startScan was created in
scanTimeout(timer) ==
  /\ timer \in timers
  /\ stopScanOf(timer.seen, timers \ {timer})
  /\ last' = [Step("scanTimeout", "app") EXCEPT !.case = timer.seen,
                !.call = timer.id]
  /\ UNCHANGED <<devices, isListFrozen, starts, scans>>
  /\ UNCHANGED <<managerRef, connecting, store, quiet, readValue, beam, now, ticks>>

\* the running device scan reports a device to its listener
scanResult(device) ==
  /\ deviceScan.on
  /\ devices' = addDevice(devices, device, deviceScan.frozen)
  /\ last' = [Step("scanResult", "app") EXCEPT !.id = device.id,
                !.rssi = device.rssi, !.frozen = deviceScan.frozen,
                !.got = findIndex(devices, device.id)]
  /\ UNCHANGED <<scanState, isListFrozen, scanTimeoutRef, timers, deviceScan,
                 starts, scans>>
  /\ UNCHANGED <<managerRef, connecting, store, quiet, readValue, beam, now, ticks>>

\* the running device scan reports an error to its listener; the manager
\* may have ended the scan
scanError(ended) ==
  /\ deviceScan.on
  /\ scanState' = "error"
  /\ deviceScan' = IF ended THEN NoScan ELSE deviceScan
  /\ last' = Step("scanError", "app")
  /\ UNCHANGED <<devices, isListFrozen, scanTimeoutRef, timers, starts, scans>>
  /\ UNCHANGED <<managerRef, connecting, store, quiet, readValue, beam, now, ticks>>

clearDevices ==
  /\ devices' = <<>>
  /\ last' = Step("clearDevices", "app")
  /\ UNCHANGED <<scanState, isListFrozen, scanTimeoutRef, timers, deviceScan,
                 starts, scans>>
  /\ UNCHANGED <<managerRef, connecting, store, quiet, readValue, beam, now, ticks>>

sortDevices ==
  /\ devices' = sortDevicesByRSSI(devices)
  /\ last' = Step("sortDevices", "app")
  /\ UNCHANGED <<scanState, isListFrozen, scanTimeoutRef, timers, deviceScan,
                 starts, scans>>
  /\ UNCHANGED <<managerRef, connecting, store, quiet, readValue, beam, now, ticks>>

\* freezeDeviceList, unfreezeDeviceList (to = TRUE, FALSE)
setIsListFrozen(to) ==
  /\ isListFrozen' = to
  /\ last' = [Step("setIsListFrozen", "app") EXCEPT !.frozen = to]
  /\ UNCHANGED <<scanState, devices, scanTimeoutRef, timers, deviceScan,
                 starts, scans>>
  /\ UNCHANGED <<managerRef, connecting, store, quiet, readValue, beam, now, ticks>>

toggleDeviceListFreeze ==
  /\ isListFrozen' = ~isListFrozen
  /\ last' = [Step("toggleDeviceListFreeze", "app") EXCEPT !.frozen = ~isListFrozen]
  /\ UNCHANGED <<scanState, devices, scanTimeoutRef, timers, deviceScan,
                 starts, scans>>
  /\ UNCHANGED <<managerRef, connecting, store, quiet, readValue, beam, now, ticks>>

\* ---- the scanning hook in use: scans started, stopped and timed out,
\* two devices in range

InitScan ==
  /\ EngineAt(Zero32, DefaultPowerDbm, DefaultIntervalMs)
  /\ NexState(NexStateConfig)
  /\ \E manager \in {NULL, BLE_MANAGER} : AppMounted(manager)

NextScan ==
  \/ startScan
  \/ \E call \in starts, permission \in {"granted", "denied", "failed"},
        throws \in BOOLEAN :
       startScan_resume(call, permission, throws)
  \/ stopScan
  \/ \E timer \in timers : scanTimeout(timer)
  \/ \E device \in ScanResults({1, 2}) : scanResult(device)
  \/ \E ended \in BOOLEAN : scanError(ended)
  \/ clearDevices
  \/ sortDevices
  \/ \E to \in BOOLEAN : setIsListFrozen(to)
  \/ toggleDeviceListFreeze

SpecScan == InitScan /\ [][NextScan]_vars


\* C38: once the auto-stop timer of a started scan fires (SCAN_TIMEOUT after
\* startScan succeeded, stopScan not having cleared it), the scan has
\* stopped: scanState is idle and the BLE manager's device scan is stopped,
\* and the device list changes by a scan result only while a scan that was
\* started has neither been stopped nor timed out.
C38_ScanStopsAtTimeout ==
  [][/\ last'.op = "scanTimeout" => (scanState' = "idle" /\ ~deviceScan'.on)
     /\ last'.op = "scanResult" => (devices' = devices \/ scanState # "idle")]_vars


\* ---- the device list under scan results, from lists of every length
\* that matters: empty, short, one below MAX_DEVICES and full
\* (results for ids in a list that is filled, for the id that fills it and
\* for one more)
\* the list after a scan found the devices 1..n, each weaker than the one
\* before it
FoundList(n) == [i \in 1..n |-> ScanResult(i, -40 - i)]

\* a scan started from the idle hook is running and has found n devices
InitList ==
  /\ EngineAt(Zero32, DefaultPowerDbm, DefaultIntervalMs)
  /\ NexState(NexStateConfig)
  /\ managerRef = BLE_MANAGER
  /\ useBLE
  /\ scanState = "scanning"
  /\ \E n \in {0, 2, MAX_DEVICES - 1, MAX_DEVICES} : devices = FoundList(n)
  /\ isListFrozen = FALSE
  /\ scanTimeoutRef = 1
  /\ timers = {[id |-> 1, seen |-> "idle"]}
  /\ deviceScan = [on |-> TRUE, frozen |-> FALSE]
  /\ starts = {}
  /\ scans = 1

NextList ==
  \/ \E device \in ScanResults({1, 2, MAX_DEVICES, MAX_DEVICES + 1}) :
       scanResult(device)
  \/ sortDevices
  \/ clearDevices
  \/ toggleDeviceListFreeze

SpecList == InitList /\ [][NextList]_vars

NoTwoWithSameId(list) ==
  \A i, j \in 1..Len(list) : list[i].id = list[j].id => i = j

\* C39: the device list never contains two entries with the same device id
\* and never holds more than MAX_DEVICES entries, and a scan result for an
\* id already in the list replaces that entry in place: the length and
\* every other entry stay as they are, and the entry at the id's position
\* is the result.
C39_ListDistinctCappedInPlace ==
  /\ [](NoTwoWithSameId(devices) /\ Len(devices) <= MAX_DEVICES)
  /\ [][(last'.op = "scanResult" /\ \E i \in 1..Len(devices) : devices[i].id = last'.id)
          => /\ Len(devices') = Len(devices)
             /\ \A i \in 1..Len(devices) :
                  devices'[i] = IF devices[i].id = last'.id
                                THEN ScanResult(last'.id, last'.rssi)
                                ELSE devices[i]]_vars

\* a full list of MAX_DEVICES devices whose last one was just updated in
\* place with a stronger signal than the one before it, the list not
\* being re-sorted
C39_Witness ==
  /\ last.op = "scanResult" /\ last.id = MAX_DEVICES /\ last.rssi = -40
  /\ Len(devices) = MAX_DEVICES
  /\ devices[MAX_DEVICES] = ScanResult(MAX_DEVICES, -40)
  /\ devices[MAX_DEVICES - 1] = ScanResult(MAX_DEVICES - 1, -40 - (MAX_DEVICES - 1))


\* --------------------------------------------- the app: connection hook
ConnectIds == {"esp32-a", "esp32-b"}
\* what an attempt can throw, by the tests the catch block makes on it: an
\* Error whose message includes 'timeout', 'connection', 'characteristics
\* not found' (thrown by the attempt itself after discovery) or
\* 'permission', an Error with another message (such as the one thrown for
\* a device without the BeamLink service), and a value that is not an Error
Causes == {"timeout", "connection", "characteristics not found", "permission",
           "other", "not an Error"}

\* the text the catch block gives to setError
errorMessage(cause) ==
  CASE cause = "not an Error" -> "Failed to connect"
    [] cause = "characteristics not found" ->
         "Device not compatible - missing BeamLink service"
    [] cause = "timeout" -> "Connection timeout - device may be busy"
    [] cause = "permission" -> "Bluetooth permission denied"
    [] OTHER -> "Connection failed: " \o cause

\* the retry test of the catch block
CanRetry_oneMore(retryCount, cause) ==
  retryCount <= RETRY_ATTEMPTS /\ cause \in {"timeout", "connection"}

CanRetry(retryCount, cause) ==
  retryCount < RETRY_ATTEMPTS /\ cause \in {"timeout", "connection"}

\* connectToDevice(deviceInfo, retryCount) of a render whose
\* connectedDevice was seen, up to its first await
connectToDeviceOf(c, deviceInfo, retryCount, seen) ==
  IF managerRef = NULL
  THEN /\ error' = "BLE Manager not available"
       /\ calls' = [calls EXCEPT ![c] = [pc |-> "done", device |-> deviceInfo,
                      retryCount |-> retryCount, ret |-> FALSE,
                      seen |-> seen]]
       /\ UNCHANGED <<connectedDevice, attempts>>
  ELSE IF seen # NoDevice
  THEN /\ error' = "Already connected to a device. Disconnect first."
       /\ calls' = [calls EXCEPT ![c] = [pc |-> "done", device |-> deviceInfo,
                      retryCount |-> retryCount, ret |-> FALSE,
                      seen |-> seen]]
       /\ UNCHANGED <<connectedDevice, attempts>>
  ELSE /\ error' = NULL
       /\ connectedDevice' = [id |-> deviceInfo, connectionState |-> "connecting"]
       /\ attempts' = [attempts EXCEPT ![c] = @ + 1]
       /\ calls' = [calls EXCEPT ![c] = [pc |-> "connecting", device |-> deviceInfo,
                      retryCount |-> retryCount, ret |-> FALSE,
                      seen |-> seen]]

\* the user connects to a device: connectToDevice of the current render
connectToDevice(c, deviceInfo) ==
  /\ calls[c].pc = "unused"
  /\ \A b \in CallIds : b < c => calls[b].pc # "unused"
  /\ connectToDeviceOf(c, deviceInfo, 0, connectedDevice)
  /\ last' = [Step("connectToDevice", "app") EXCEPT !.call = c,
                !.ret = calls'[c].ret, !.case = calls'[c].pc]
  /\ UNCHANGED <<deviceRef, characteristicRef>>
  /\ UNCHANGED <<managerRef, scanning, store, quiet, readValue, beam, now, ticks>>

\* the manager's connectToDevice resolves
connectToDevice_connected(c) ==
  /\ calls[c].pc = "connecting"
  /\ deviceRef' = calls[c].device
  /\ calls' = [calls EXCEPT ![c].pc = "discovering"]
  /\ last' = [Step("connectToDevice_connected", "app") EXCEPT !.call = c]
  /\ UNCHANGED <<connectedDevice, characteristicRef, error, attempts>>
  /\ UNCHANGED <<managerRef, scanning, store, quiet, readValue, beam, now, ticks>>

\* discovery found the service and both characteristics
connectToDevice_discovered(c) ==
  /\ calls[c].pc = "discovering"
  /\ characteristicRef' = calls[c].device
  /\ connectedDevice' = IF connectedDevice # NoDevice
                        THEN [connectedDevice EXCEPT !.connectionState = "connected"]
                        ELSE NoDevice
  /\ calls' = [calls EXCEPT ![c].pc = "done", ![c].ret = TRUE]
  /\ last' = [Step("connectToDevice_discovered", "app") EXCEPT !.call = c,
                !.ret = TRUE]
  /\ UNCHANGED <<deviceRef, error, attempts>>
  /\ UNCHANGED <<managerRef, scanning, store, quiet, readValue, beam, now, ticks>>

\* the attempt throws: the catch block
connectToDevice_catch(c, cause) ==
  /\ \/ calls[c].pc = "connecting" /\ cause # "characteristics not found"
     \/ calls[c].pc = "discovering"
  /\ error' = errorMessage(cause)
  /\ connectedDevice' = NoDevice
  /\ deviceRef' = NULL
  /\ characteristicRef' = NULL
  /\ calls' = [calls EXCEPT
                 ![c].pc = IF CanRetry(calls[c].retryCount, cause)
                           THEN "waiting" ELSE "done",
                 ![c].ret = FALSE]
  /\ last' = [Step("connectToDevice_catch", "app") EXCEPT !.call = c,
                !.ret = FALSE, !.case = calls'[c].pc, !.from = cause,
                !.got = calls[c].retryCount]
  /\ UNCHANGED attempts
  /\ UNCHANGED <<managerRef, scanning, store, quiet, readValue, beam, now, ticks>>

\* one second later: the call calls itself with retryCount + 1
connectToDevice_retry(c) ==
  /\ calls[c].pc = "waiting"
  /\ connectToDeviceOf(c, calls[c].device, calls[c].retryCount + 1, calls[c].seen)
  /\ last' = [Step("connectToDevice_retry", "app") EXCEPT !.call = c,
                !.ret = calls'[c].ret, !.case = calls'[c].pc,
                !.got = calls[c].retryCount + 1]
  /\ UNCHANGED <<deviceRef, characteristicRef>>
  /\ UNCHANGED <<managerRef, scanning, store, quiet, readValue, beam, now, ticks>>

disconnectFromDevice ==
  /\ connectedDevice' = NoDevice
  /\ deviceRef' = NULL
  /\ characteristicRef' = NULL
  /\ error' = NULL
  /\ last' = Step("disconnectFromDevice", "app")
  /\ UNCHANGED <<calls, attempts>>
  /\ UNCHANGED <<managerRef, scanning, store, quiet, readValue, beam, now, ticks>>

\* ---- the connection hook in use

\* what a pending call does next, every awaited promise settling
connectToDevice_resume(c) ==
  \/ connectToDevice_connected(c)
  \/ connectToDevice_discovered(c)
  \/ \E cause \in Causes : connectToDevice_catch(c, cause)
  \/ connectToDevice_retry(c)

NextConnect ==
  \/ \E c \in CallIds, deviceInfo \in ConnectIds : connectToDevice(c, deviceInfo)
  \/ \E c \in CallIds : connectToDevice_resume(c)
  \/ disconnectFromDevice

SpecConnect == InitScan /\ [][NextConnect]_vars



\* a step in which call c returns false
ReturnsFalse(c) ==
  /\ last'.op \in {"connectToDevice", "connectToDevice_catch", "connectToDevice_retry"}
  /\ last'.call = c
  /\ calls[c].pc # "done" /\ calls'[c].pc = "done" /\ ~calls'[c].ret

ConnectionCleared ==
  connectedDevice = NoDevice /\ deviceRef = NULL /\ characteristicRef = NULL

\* a call schedules a retry only from a failure of the timeout or the
\* connection type, and only below RETRY_ATTEMPTS retries
RetriesOnlyOnTimeoutOrConnection ==
  \A c \in CallIds :
    (calls[c].pc # "waiting" /\ calls'[c].pc = "waiting")
      => /\ last'.op = "connectToDevice_catch"
         /\ last'.from \in {"timeout", "connection"}
         /\ calls[c].retryCount < RETRY_ATTEMPTS

AttemptsBounded == \A c \in CallIds : attempts[c] <= 1 + RETRY_ATTEMPTS

\* how far a call has come: its retry count first, then its position
Stage(at) ==
  CASE at = "unused" -> 0
    [] at = "connecting" -> 1
    [] at = "discovering" -> 2
    [] at = "waiting" -> 3
    [] at = "done" -> 4
CallProgress(call) ==
  IF call.pc = "done" THEN 4 * (RETRY_ATTEMPTS + 1)
  ELSE 4 * call.retryCount + Stage(call.pc)

\* a call that has not returned can take its next step, and no step of a
\* call returns it to an earlier point
CallPending(c) == calls[c].pc \in {"connecting", "discovering", "waiting"}
CallsAdvance ==
  \A c \in CallIds :
    calls'[c] # calls[c] =>
      /\ CallProgress(calls'[c]) > CallProgress(calls[c])
      /\ CallProgress(calls'[c]) <= 4 * (RETRY_ATTEMPTS + 1)
CallsCanResume ==
  \A c \in CallIds : CallPending(c) => ENABLED connectToDevice_resume(c)

\* C40 as stated: a connectToDevice call makes at most 1 + RETRY_ATTEMPTS
\* connection attempts and returns (every step of the call brings it nearer
\* to its return, which is a bounded number of steps away, and a call that
\* has not returned can always take its next step); it retries only after
\* a timeout- or connection-type failure; and whenever it returns false the
\* connected device is null and the device and characteristic references
\* are null.
C40_ConnectRetry ==
  /\ [](AttemptsBounded /\ CallsCanResume)
  /\ [][/\ CallsAdvance
        /\ RetriesOnlyOnTimeoutOrConnection
        /\ \A c \in CallIds : ReturnsFalse(c) => ConnectionCleared']_vars

\* C40, amended: as above, the last part for a call that returns false
\* after a connection attempt; a call refused before any attempt (no BLE
\* manager, or a device already connected or connecting) returns false and
\* leaves the connected device and both references as they are.
C40_ConnectRetryAfterAttempt ==
  /\ [](AttemptsBounded /\ CallsCanResume)
  /\ [][/\ CallsAdvance
        /\ RetriesOnlyOnTimeoutOrConnection
        /\ \A c \in CallIds :
             (ReturnsFalse(c) /\ attempts[c] > 0) => ConnectionCleared'
        /\ \A c \in CallIds :
             (ReturnsFalse(c) /\ attempts[c] = 0) =>
                (last'.op = "connectToDevice"
                 /\ UNCHANGED <<connectedDevice, deviceRef, characteristicRef>>)]_vars

\* a call has returned false after 1 + RETRY_ATTEMPTS attempts, each of
\* them failing with a timeout or a connection error
C40_Witness ==
  /\ last.op = "connectToDevice_catch" /\ last.from = "timeout"
  /\ last.got = RETRY_ATTEMPTS
  /\ calls[last.call].pc = "done" /\ ~calls[last.call].ret
  /\ attempts[last.call] = 1 + RETRY_ATTEMPTS
  /\ ConnectionCleared

====
